---- MODULE Spec2Model ----
(***************************************************************************)
(* Content/data API of the band website: the access-control gate, the      *)
(* validation and sanitization helpers, the SQLite-backed store (tours,    *)
(* countdown, gallery, gallery settings) and the Express route handlers    *)
(* of server.js that drive it.                                             *)
(*                                                                         *)
(* A JavaScript string is a sequence of one-character strings.  A          *)
(* JavaScript value is a record [t, s, n]: t is the kind of value, s the   *)
(* characters of a string, n the number of a number (1/0 for a boolean).   *)
(***************************************************************************)
EXTENDS Integers, Sequences, FiniteSets, TLC

VARIABLES
    adminPassword,   \* process.env.ADMIN_PASSWORD, read once at start
    requestCounts,   \* the Map of rateLimit: a set of entries ip, count, resetTime
    tours,           \* table tours: a set of rows
    toursSeq,        \* sqlite_sequence.seq of tours (AUTOINCREMENT)
    countdown,       \* table countdown: a set of rows
    gallerySettings, \* table gallery_settings: a set of rows
    gallery,         \* table gallery: a set of rows
    now,             \* the clock behind CURRENT_TIMESTAMP, in seconds
    files,           \* the names of the files in GALLERY_DIR
    fileSeq,         \* how many file names multer's storage has generated and kept
    bandInfo,        \* the content of data/band-info.json
    bandInfoBackups, \* the contents of the files in data/backups
    backups,         \* the number of files createBackup has written to ./backups
    req,             \* the call of the last step: a request, or a store method's arguments
    res,             \* what the call of the last step answered or returned
    issued,          \* history: the identifiers addTour returned, in order
    added,           \* history: id -> the tourData of addTour, until update/delete of id
    deleted,         \* history: the tour ids a deleteTour call has removed
    lastWrite,       \* history: the countdownData / enabled flag of the last singleton write
    calls,           \* history: the store and file-system calls the handler of the
                     \* last step made for a gallery upload or deletion, in order
    admitted,        \* history: how many requests rateLimit has let pass, by address
                     \* and time, over the last RATE_LIMIT_WINDOW milliseconds
    deleting,        \* the DELETE /admin/delete-photo requests whose handler waits
                     \* at an await: slot -> position, photoId and the photo found
    dbFile           \* the tables as the main database file holds them (the
                     \* commits since the last checkpoint are in the -wal file
                     \* only), and as the last backup file holds them

vars == <<adminPassword, requestCounts, tours, toursSeq, countdown, gallerySettings,
          gallery, now, files, fileSeq, bandInfo, bandInfoBackups, backups, req, res,
          issued, added, deleted, lastWrite, calls, admitted, deleting,
          dbFile>>

-----------------------------------------------------------------------------
(* JavaScript values *)

Undefined == [t |-> "undefined", s |-> <<>>, n |-> 0]

Null == [t |-> "null", s |-> <<>>, n |-> 0]

NaN == [t |-> "nan", s |-> <<>>, n |-> 0]

JsObject == [t |-> "object", s |-> <<>>, n |-> 0]

JsStr(s) == [t |-> "string", s |-> s, n |-> 0]

JsNum(n) == [t |-> "number", s |-> <<>>, n |-> n]

JsBool(b) == [t |-> "boolean", s |-> <<>>, n |-> IF b THEN 1 ELSE 0]

EmptyStr == JsStr(<<>>)

\* typeof v
TypeOf(v) ==
    CASE v.t = "nan" -> "number"
      [] v.t = "null" -> "object"
      [] OTHER -> v.t

\* ToBoolean(v): what `!v`, `v || d` and `v ? a : b` test
Truthy(v) ==
    CASE v.t = "string" -> v.s # <<>>
      [] v.t = "number" -> v.n # 0
      [] v.t = "boolean" -> v.n = 1
      [] v.t = "object" -> TRUE
      [] OTHER -> FALSE

\* v || d
OrElse(v, d) == IF Truthy(v) THEN v ELSE d

Min(a, b) == IF a < b THEN a ELSE b

Max(a, b) == IF a < b THEN b ELSE a

\* the string of n characters c
Rep(c, n) == SubSeq([i \in 1..Max(n, 0) |-> c], 1, Max(n, 0))

\* White space as String.prototype.trim sees it (the blank stands for the class)
WhiteSpace == {" "}

RECURSIVE TrimStart(_)
TrimStart(s) ==
    IF s = <<>> THEN s
    ELSE IF Head(s) \in WhiteSpace THEN TrimStart(Tail(s)) ELSE s

RECURSIVE TrimEnd(_)
TrimEnd(s) ==
    IF s = <<>> THEN s
    ELSE IF s[Len(s)] \in WhiteSpace THEN TrimEnd(SubSeq(s, 1, Len(s) - 1)) ELSE s

\* s.trim()
Trim(s) == TrimEnd(TrimStart(s))

\* s.substring(0, n)
Substring0(s, n) == SubSeq(s, 1, Min(Len(s), Max(n, 0)))

\* The UTF-16 code unit of a character of the model's alphabet
CharCode(c) ==
    CASE c = " " -> 32
      [] c = "-" -> 45
      [] c = "0" -> 48
      [] c = "1" -> 49
      [] c = "2" -> 50
      [] c = "3" -> 51
      [] c = "4" -> 52
      [] c = "5" -> 53
      [] c = "6" -> 54
      [] c = "7" -> 55
      [] c = "8" -> 56
      [] c = "9" -> 57
      [] c = "<" -> 60
      [] c = ">" -> 62
      [] c = "a" -> 97
      [] c = "b" -> 98
      [] OTHER -> 120

IsDigit(c) == CharCode(c) >= 48 /\ CharCode(c) <= 57

RECURSIVE DigitsValue(_, _)
\* the value of the longest prefix of decimal digits of s, after acc
DigitsValue(s, acc) ==
    IF s = <<>> \/ ~IsDigit(Head(s)) THEN acc
    ELSE DigitsValue(Tail(s), 10 * acc + (CharCode(Head(s)) - 48))

\* parseInt(s, 10) of a string: white space, a sign, then decimal digits
ParseIntStr(s) ==
    LET t == TrimStart(s)
        neg == t # <<>> /\ Head(t) = "-"
        d == IF neg THEN Tail(t) ELSE t
    IN  IF d = <<>> \/ ~IsDigit(Head(d)) THEN NaN
        ELSE JsNum(IF neg THEN 0 - DigitsValue(d, 0) ELSE DigitsValue(d, 0))

\* parseInt(v, 10) of any value of the model
ParseInt(v) ==
    CASE v.t = "string" -> ParseIntStr(v.s)
      [] v.t = "number" -> v
      [] OTHER -> NaN

\* isNaN(v) / !Number.isFinite(v) for the results of ParseInt
IsNaN(v) == v.t = "nan"

-----------------------------------------------------------------------------
(* Validation and sanitization: server.js *)

\* One step of the scan of /<[^>]*>?/g over a string: outside a match '<'
\* opens one and is dropped, any other character is kept; inside a match
\* '>' closes it and is dropped, any other character ([^>]) is dropped
ScanChar(c, inTag) ==
    IF inTag THEN [out |-> <<>>, inTag |-> c # ">"]
    ELSE IF c = "<" THEN [out |-> <<>>, inTag |-> TRUE]
    ELSE [out |-> <<c>>, inTag |-> FALSE]

RECURSIVE Scan(_, _, _, _)
\* The scan of s[lo..hi] entered with inTag: what is kept, and the state left
Scan(s, lo, hi, inTag) ==
    IF lo > hi THEN [out |-> <<>>, inTag |-> inTag]
    ELSE IF lo = hi THEN ScanChar(s[lo], inTag)
    ELSE LET mid == (lo + hi) \div 2
             left == Scan(s, lo, mid, inTag)
             right == Scan(s, mid + 1, hi, left.inTag)
         IN  [out |-> left.out \o right.out, inTag |-> right.inTag]

\* str.replace(/<[^>]*>?/gm, '')
StripTags(s) == Scan(s, 1, Len(s), FALSE).out

\* A sanitizer that cuts the string but strips nothing
sanitizeStringNoStrip(v, maxLength) ==
    IF TypeOf(v) # "string" THEN <<>> ELSE Substring0(v.s, maxLength)

\* sanitizeString(str, maxLength)
sanitizeString(v, maxLength) ==
    IF TypeOf(v) # "string" THEN <<>>
    ELSE Substring0(StripTags(v.s), maxLength)

\* the default of sanitizeString's maxLength
DefaultMaxLength == 200

MaxCityLength == 100

MaxVenueLength == 200

MaxDateLength == 50

NoError == [kind |-> "none", field |-> ""]

\* !data[field] || typeof data[field] !== 'string' || data[field].trim() === ''
NotNonEmptyString(v) ==
    \/ ~Truthy(v)
    \/ TypeOf(v) # "string"
    \/ Trim(v.s) = <<>>

\* A length test that also turns down a value of exactly maxLength characters
TooLongAtLimit(v, maxLength) == Truthy(v) /\ Len(v.s) >= maxLength

\* data[field] && data[field].length > maxLength
TooLong(v, maxLength) == Truthy(v) /\ Len(v.s) > maxLength

\* validateTourData(data): the error it describes, or NoError for null.
\* The required fields are tested in the order date, city, venue, then the
\* lengths in the order of maxLengths: city, venue, date.
validateTourData(data) ==
    IF NotNonEmptyString(data.date) THEN [kind |-> "required", field |-> "date"]
    ELSE IF NotNonEmptyString(data.city) THEN [kind |-> "required", field |-> "city"]
    ELSE IF NotNonEmptyString(data.venue) THEN [kind |-> "required", field |-> "venue"]
    ELSE IF TooLong(data.city, MaxCityLength) THEN [kind |-> "length", field |-> "city"]
    ELSE IF TooLong(data.venue, MaxVenueLength) THEN [kind |-> "length", field |-> "venue"]
    ELSE IF TooLong(data.date, MaxDateLength) THEN [kind |-> "length", field |-> "date"]
    ELSE NoError

-----------------------------------------------------------------------------
(* The access-control gate: server.js *)

\* An environment variable or a request header: present or not, and its text
Absent == [set |-> FALSE, v |-> ""]

Text(v) == [set |-> TRUE, v |-> v]

\* !x for an optional string
Falsy(x) == ~x.set \/ x.v = ""

\* `${x}`
Template(x) == IF x.set THEN x.v ELSE "undefined"

\* A gate that lets every non-empty header through
requireAuthAnyHeader(authHeader) ==
    IF Falsy(adminPassword) THEN 500
    ELSE IF Falsy(authHeader) THEN 401 ELSE 0

\* A gate without the test of the configuration
requireAuthNoConfigCheck(authHeader) ==
    IF Falsy(authHeader) \/ authHeader.v # "Bearer " \o Template(adminPassword)
    THEN 401
    ELSE 0

\* requireAuth: 0 when it calls next(), else the status it answers with
requireAuth(authHeader) ==
    IF Falsy(adminPassword) THEN 500
    ELSE IF Falsy(authHeader) \/ authHeader.v # "Bearer " \o Template(adminPassword)
         THEN 401
         ELSE 0

\* The response of the gate when it refuses
GateError(status) ==
    IF status = 500 THEN "Server configuration error: Admin password not configured"
    ELSE "Unauthorized"

-----------------------------------------------------------------------------
(* The store, tours: database.js *)

RowIds(rows) == {r.id : r \in rows}

MaxRowId(rows) ==
    IF rows = {} THEN 0 ELSE CHOOSE m \in RowIds(rows) : \A i \in RowIds(rows) : i <= m

\* A key without AUTOINCREMENT: one more than the largest rowid in the table
NewTourIdNoSequence == MaxRowId(tours) + 1

\* INTEGER PRIMARY KEY AUTOINCREMENT: one more than the largest rowid the table
\* has ever held, which sqlite_sequence remembers across deletes
NewTourId == Max(toursSeq, MaxRowId(tours)) + 1

\* A row with city and venue bound in each other's place
TourRowSwapped(id, tourData) ==
    [id |-> id,
     date |-> tourData.date.s,
     city |-> tourData.venue.s,
     venue |-> tourData.city.s,
     ticketLink |-> OrElse(tourData.ticketLink, EmptyStr).s]

\* The row INSERT / UPDATE writes: date, city, venue, ticketLink || ''
TourRow(id, tourData) ==
    [id |-> id,
     date |-> tourData.date.s,
     city |-> tourData.city.s,
     venue |-> tourData.venue.s,
     ticketLink |-> OrElse(tourData.ticketLink, EmptyStr).s]

\* addTour: the table after the INSERT
addTour(tourData) == tours \cup {TourRow(NewTourId, tourData)}

\* An update that always reports one row changed
updateTourChangesAlwaysOne(id) == 1

\* updateTour: result.changes of UPDATE ... WHERE id = ?
updateTourChanges(id) == Cardinality({r \in tours : r.id = id})

\* updateTour: the table after the UPDATE
updateTour(id, tourData) ==
    {IF r.id = id THEN TourRow(id, tourData) ELSE r : r \in tours}

\* A delete that always reports one row changed
deleteTourChangesAlwaysOne(id) == 1

\* deleteTour: result.changes of DELETE ... WHERE id = ?
deleteTourChanges(id) == Cardinality({r \in tours : r.id = id})

\* deleteTour: the table after the DELETE
deleteTour(id) == {r \in tours : r.id # id}

\* a < b under SQLite's BINARY collation: the first differing character
\* decides, and a proper prefix is smaller
StrLess(a, b) ==
    LET n == Min(Len(a), Len(b))
        diff == {i \in 1..n : a[i] # b[i]}
    IN  IF diff = {} THEN Len(a) < Len(b)
        ELSE LET i == CHOOSE d \in diff : \A e \in diff : d <= e
             IN  CharCode(a[i]) < CharCode(b[i])

\* The sequences that hold each element of the set rows once
Listings(rows) ==
    {l \in [1..Cardinality(rows) -> rows] : \A r \in rows : \E i \in DOMAIN l : l[i] = r}

\* getTours: SELECT * FROM tours ORDER BY date DESC; the order of rows of one
\* date is the engine's choice
getTours ==
    {l \in Listings(tours) :
        \A i, j \in DOMAIN l : i < j => ~StrLess(l[i].date, l[j].date)}

-----------------------------------------------------------------------------
(* Requests, responses and history *)

\* A call: the route or store method, the Authorization header, the :id
\* parameter of the URL, the id argument of a store method, and the body or
\* data argument
Request(op, authHeader, param, id, body) ==
    [op |-> op, auth |-> authHeader, param |-> param, id |-> id, body |-> body]

NoBody == [none |-> TRUE]

\* What the call answered: the HTTP status (0 for a direct store call), the
\* error text, the field a validation error names, the tour id concerned, the
\* boolean a store method returned, and the rows of the body
Response(status, error, field, id, ok, body) ==
    [status |-> status, error |-> error, field |-> field,
     id |-> id, ok |-> ok, body |-> body]

\* The tables
store == <<tours, toursSeq, countdown, gallerySettings, gallery>>

\* The files outside the database
disk == <<files, fileSeq, bandInfo, bandInfoBackups, backups>>

\* The history variables
history == <<issued, added, deleted, lastWrite, admitted>>

\* History of a successful addTour(tourData) that returned id
NoteAdded(id, tourData) ==
    /\ issued' = Append(issued, id)
    /\ added' = {a \in added : a.id # id} \cup {[id |-> id, data |-> tourData]}
    /\ deleted' = deleted

\* History of an updateTour(id, ...) call
NoteUpdated(id) ==
    /\ added' = {a \in added : a.id # id}
    /\ UNCHANGED <<issued, deleted>>

\* History of a deleteTour(id) call that removed `changes` rows
NoteDeleted(id, changes) ==
    /\ added' = {a \in added : a.id # id}
    /\ deleted' = IF changes > 0 THEN deleted \cup {id} ELSE deleted
    /\ issued' = issued

-----------------------------------------------------------------------------
(* Routes, tours: server.js *)

\* tourData of POST and PUT /api/tours: date as sent, the rest sanitized
SanitizedTour(body) ==
    [date |-> body.date,
     city |-> JsStr(sanitizeString(body.city, DefaultMaxLength)),
     venue |-> JsStr(sanitizeString(body.venue, DefaultMaxLength)),
     ticketLink |-> JsStr(sanitizeString(OrElse(body.ticketLink, EmptyStr),
                                         DefaultMaxLength))]

\* GET /api/tours
GetToursRoute ==
    /\ req' = Request("GET /api/tours", Absent, <<>>, 0, NoBody)
    /\ \E l \in getTours : res' = Response(200, "", "", 0, TRUE, l)
    /\ calls' = <<>>
    /\ UNCHANGED <<dbFile, deleting, adminPassword, requestCounts, now, store, disk,
                   history>>

\* A route refused by requireAuth
Refused(gate) ==
    /\ res' = Response(gate, GateError(gate), "", 0, FALSE, <<>>)
    /\ calls' = <<>>
    /\ UNCHANGED <<dbFile, deleting, adminPassword, requestCounts, now, store, disk,
                   history>>

\* A route that answers a client error before it touches the store
ClientError(error, field) ==
    /\ res' = Response(400, error, field, 0, FALSE, <<>>)
    /\ calls' = <<>>
    /\ UNCHANGED <<dbFile, deleting, adminPassword, requestCounts, now, store, disk,
                   history>>

\* POST /api/tours
PostTours(authHeader, body) ==
    LET gate == requireAuth(authHeader)
        validationError == validateTourData(body)
        tourData == SanitizedTour(body)
        id == NewTourId
    IN  /\ req' = Request("POST /api/tours", authHeader, <<>>, 0, body)
        /\ IF gate # 0 THEN Refused(gate)
           ELSE IF validationError # NoError
           THEN ClientError(validationError.kind, validationError.field)
           ELSE /\ tours' = addTour(tourData)
                /\ toursSeq' = id
                /\ res' = Response(200, "", "", id, TRUE,
                                   <<[id |-> id, data |-> tourData]>>)
                /\ NoteAdded(id, tourData)
                /\ calls' = <<>>
                /\ UNCHANGED <<dbFile, deleting, adminPassword, requestCounts, admitted,
                               now, gallery, disk, countdown, gallerySettings, lastWrite>>

\* PUT /api/tours/:id
PutTours(authHeader, param, body) ==
    LET gate == requireAuth(authHeader)
        tourId == ParseInt(JsStr(param))
        validationError == validateTourData(body)
        tourData == SanitizedTour(body)
    IN  /\ req' = Request("PUT /api/tours/:id", authHeader, param, 0, body)
        /\ IF gate # 0 THEN Refused(gate)
           ELSE IF IsNaN(tourId) THEN ClientError("Invalid tour ID", "")
           ELSE IF validationError # NoError
           THEN ClientError(validationError.kind, validationError.field)
           ELSE /\ tours' = updateTour(tourId.n, tourData)
                /\ res' = IF updateTourChanges(tourId.n) > 0
                          THEN Response(200, "", "", tourId.n, TRUE,
                                        <<[id |-> tourId.n, data |-> tourData]>>)
                          ELSE Response(404, "Tour not found", "", tourId.n, FALSE, <<>>)
                /\ NoteUpdated(tourId.n)
                /\ calls' = <<>>
                /\ UNCHANGED <<dbFile, deleting, adminPassword, requestCounts, admitted,
                               now, gallery, disk, toursSeq, countdown, gallerySettings,
                               lastWrite>>

\* DELETE /api/tours/:id
DeleteTours(authHeader, param) ==
    LET gate == requireAuth(authHeader)
        tourId == ParseInt(JsStr(param))
    IN  /\ req' = Request("DELETE /api/tours/:id", authHeader, param, 0, NoBody)
        /\ IF gate # 0 THEN Refused(gate)
           ELSE IF IsNaN(tourId) THEN ClientError("Invalid tour ID", "")
           ELSE /\ tours' = deleteTour(tourId.n)
                /\ res' = IF deleteTourChanges(tourId.n) > 0
                          THEN Response(200, "", "", tourId.n, TRUE, <<>>)
                          ELSE Response(404, "Tour not found", "", tourId.n, FALSE, <<>>)
                /\ NoteDeleted(tourId.n, deleteTourChanges(tourId.n))
                /\ calls' = <<>>
                /\ UNCHANGED <<dbFile, deleting, adminPassword, requestCounts, admitted,
                               now, gallery, disk, toursSeq, countdown, gallerySettings,
                               lastWrite>>

-----------------------------------------------------------------------------
(* The store, countdown and gallery settings: database.js *)

\* INSERT OR IGNORE: a row with the same key stays and the new row is dropped
InsertOrIgnore(table, row) ==
    IF \E r \in table : r.id = row.id THEN table ELSE table \cup {row}

\* INSERT OR REPLACE of a row whose primary key is row.id: a row with the same
\* key is deleted, then the row is inserted
InsertOrReplace(table, row) == {r \in table : r.id # row.id} \cup {row}

\* The row updateCountdown binds: x || '' for the texts, enabled ? 1 : 0
CountdownRow(countdownData) ==
    [id |-> 1,
     title |-> OrElse(countdownData.title, EmptyStr).s,
     description |-> OrElse(countdownData.description, EmptyStr).s,
     releaseDate |-> OrElse(countdownData.releaseDate, EmptyStr).s,
     enabled |-> IF Truthy(countdownData.enabled) THEN 1 ELSE 0,
     completedTitle |-> OrElse(countdownData.completedTitle, EmptyStr).s,
     completedDescription |-> OrElse(countdownData.completedDescription, EmptyStr).s,
     preReleaseMessage |-> OrElse(countdownData.preReleaseMessage, EmptyStr).s]

\* updateCountdown: the table after the INSERT OR REPLACE
updateCountdown(countdownData) == InsertOrReplace(countdown, CountdownRow(countdownData))

\* SELECT ... FROM <table> WHERE id = 1, .get(): the rows it may return, as
\* sequences of one row; the empty sequence when there is none
SelectIdOne(table) ==
    IF \E r \in table : r.id = 1 THEN {<<r>> : r \in {x \in table : x.id = 1}}
    ELSE {<<>>}

\* getCountdown of a countdown table: the row, or the empty sequence for {}
getCountdownOf(table) == SelectIdOne(table)

getCountdown == getCountdownOf(countdown)

\* The row updateGallerySettings binds: enabled ? 1 : 0
GallerySettingsRow(enabled) == [id |-> 1, enabled |-> IF Truthy(enabled) THEN 1 ELSE 0]

\* updateGallerySettings: the table after the INSERT OR REPLACE
updateGallerySettings(enabled) ==
    InsertOrReplace(gallerySettings, GallerySettingsRow(enabled))

\* getGallery().gallery.enabled of a settings table:
\* settings ? Boolean(settings.enabled) : true
galleryEnabledOf(table) ==
    {IF settings = <<>> THEN TRUE ELSE settings[1].enabled # 0 :
        settings \in SelectIdOne(table)}

-----------------------------------------------------------------------------
(* Routes, countdown: server.js *)

\* GET /api/countdown
GetCountdownRoute ==
    /\ req' = Request("GET /api/countdown", Absent, <<>>, 0, NoBody)
    /\ \E c \in getCountdown : res' = Response(200, "", "", 0, TRUE, c)
    /\ calls' = <<>>
    /\ UNCHANGED <<dbFile, deleting, adminPassword, requestCounts, now, store, disk,
                   history>>

\* countdownData of POST /api/countdown
SanitizedCountdown(body) ==
    [title |-> JsStr(sanitizeString(body.title, DefaultMaxLength)),
     description |-> JsStr(sanitizeString(body.description, DefaultMaxLength)),
     releaseDate |-> body.releaseDate,
     enabled |-> JsBool(Truthy(body.enabled)),
     completedTitle |-> JsStr(sanitizeString(body.completedTitle, DefaultMaxLength)),
     completedDescription |->
         JsStr(sanitizeString(body.completedDescription, DefaultMaxLength)),
     preReleaseMessage |-> Undefined]

\* POST /api/countdown
PostCountdown(authHeader, body) ==
    LET gate == requireAuth(authHeader)
        countdownData == SanitizedCountdown(body)
    IN  /\ req' = Request("POST /api/countdown", authHeader, <<>>, 0, body)
        /\ IF gate # 0 THEN Refused(gate)
           ELSE /\ countdown' = updateCountdown(countdownData)
                /\ \E c \in getCountdownOf(countdown') :
                      res' = Response(200, "", "", 0, TRUE, c)
                /\ lastWrite' = [lastWrite EXCEPT !.countdown = <<countdownData>>]
                /\ calls' = <<>>
                /\ UNCHANGED <<dbFile, deleting, adminPassword, requestCounts, admitted,
                               now, gallery, disk, tours, toursSeq, gallerySettings,
                               issued, added, deleted>>

-----------------------------------------------------------------------------
(* The store, gallery: database.js *)

\* A MIME type is the sequence of its parts between the slashes
\* mimetype.startsWith(type + '/')
StartsWithType(mime, type) == Len(mime) >= 2 /\ mime[1] = type

\* A file name of GALLERY_DIR is the number n of the name multer generated;
\* NoFile stands for a NULL or undefined file name
NoFile == 0

\* A next order that counts the rows
getNextGalleryOrderByCount(table) == Cardinality(table) + 1

\* getNextGalleryOrder of a gallery table: (MAX(order_num) || 0) + 1
getNextGalleryOrderOf(table) ==
    LET orders == {r.order_num : r \in table}
        maxOrder == IF orders = {} THEN 0
                    ELSE CHOOSE m \in orders : \A o \in orders : o <= m
    IN  maxOrder + 1

getNextGalleryOrder == getNextGalleryOrderOf(gallery)

\* normalizeOrderValue(order) on a gallery table
normalizeOrderValue(order, table) ==
    LET parsed == ParseInt(order)
    IN  IF IsNaN(parsed) \/ parsed.n <= 0 THEN getNextGalleryOrderOf(table)
        ELSE parsed.n

\* addPhoto throws when the PRIMARY KEY id is taken
addPhotoThrows(table, photoData) == \E r \in table : r.id = photoData.id

\* addPhoto: the table after the INSERT, created_at from the clock
addPhoto(table, photoData) ==
    table \cup {[id |-> photoData.id,
                 filename |-> photoData.filename,
                 title |-> photoData.title,
                 description |-> photoData.description,
                 order_num |-> normalizeOrderValue(photoData.order, table),
                 media_type |-> photoData.mediaType,
                 thumbnail |-> photoData.thumbnail,
                 mime_type |-> photoData.mimeType,
                 created_at |-> now]}

\* An updatePhoto that writes the order and drops the thumbnail
updatePhotoNoThumbnail(table, id, photoData) ==
    {IF r.id = id
     THEN [r EXCEPT !.order_num = normalizeOrderValue(photoData.order, table),
                    !.thumbnail = NoFile]
     ELSE r : r \in table}

\* updatePhoto: the table after UPDATE gallery SET ... WHERE id = ?
updatePhoto(table, id, photoData) ==
    {IF r.id = id
     THEN [r EXCEPT !.filename = photoData.filename,
                    !.title = photoData.title,
                    !.description = photoData.description,
                    !.order_num = normalizeOrderValue(photoData.order, table),
                    !.media_type = photoData.mediaType,
                    !.thumbnail = photoData.thumbnail,
                    !.mime_type = photoData.mimeType]
     ELSE r : r \in table}

\* deletePhoto: the table after DELETE FROM gallery WHERE id = ?
deletePhoto(table, id) == {r \in table : r.id # id}

\* The photo object getGallery makes of a row
Photo(r) ==
    [id |-> r.id, filename |-> r.filename, title |-> r.title,
     description |-> r.description, order |-> JsNum(r.order_num),
     mediaType |-> IF r.media_type # "" THEN r.media_type
                   ELSE IF r.mime_type # <<>> /\ r.mime_type[1] = "video" THEN "video"
                   ELSE "photo",
     thumbnail |-> r.thumbnail, mimeType |-> r.mime_type]

\* ORDER BY order_num ASC, created_at ASC puts row a before row b, or ties
OrderedBefore(a, b) ==
    \/ a.order_num < b.order_num
    \/ a.order_num = b.order_num /\ a.created_at <= b.created_at

RECURSIVE OrderedListings(_)
\* The listings of the rows in that order: a first row that no row must
\* precede, then a listing of the others
OrderedListings(rows) ==
    IF rows = {} THEN {<<>>}
    ELSE UNION {{<<r>> \o l : l \in OrderedListings(rows \ {r})} :
                  r \in {a \in rows : \A b \in rows : OrderedBefore(a, b)}}

\* getGallery().gallery.photos of a gallery table: ORDER BY order_num ASC,
\* created_at ASC; the order of rows that tie on both is the engine's choice
getGalleryOf(table) ==
    {[i \in DOMAIN l |-> Photo(l[i])] : l \in OrderedListings(table)}

getGallery == getGalleryOf(gallery)

-----------------------------------------------------------------------------
(* Routes, gallery: server.js *)

\* GET /api/gallery
GetGalleryRoute ==
    /\ req' = Request("GET /api/gallery", Absent, <<>>, 0, NoBody)
    /\ \E l \in getGallery : res' = Response(200, "", "", 0, TRUE, l)
    /\ calls' = <<>>
    /\ UNCHANGED <<dbFile, deleting, adminPassword, requestCounts, now, store, disk,
                   history>>

\* p.id === photoId
SameId(id, photoId) == photoId.t = "string" /\ photoId.s = id

\* The positions of the photos whose id is photoId
Positions(photos, photoId) == {i \in DOMAIN photos : SameId(photos[i].id, photoId)}

\* Number(v) for the values a JSON body gives targetIndex, NaN taken as 0:
\* what Array.prototype.splice makes of its first argument
ToInteger(v) ==
    CASE v.t = "number" -> v.n
      [] v.t = "boolean" -> v.n
      [] v.t = "string" ->
            IF \A i \in DOMAIN v.s : IsDigit(v.s[i]) THEN DigitsValue(v.s, 0) ELSE 0
      [] OTHER -> 0

\* photos.splice(start, 0, photo): where the photo is inserted, as the number
\* of elements before it
SpliceStart(start, len) ==
    LET rel == ToInteger(start)
    IN  IF rel < 0 THEN Max(len + rel, 0) ELSE Min(rel, len)

\* photos.splice(photoIndex, 1); photos.splice(targetIndex, 0, photo)
Moved(photos, position, targetIndex) ==
    LET rest == SubSeq(photos, 1, position - 1)
                \o SubSeq(photos, position + 1, Len(photos))
        start == SpliceStart(targetIndex, Len(rest))
    IN  SubSeq(rest, 1, start) \o <<photos[position]>>
        \o SubSeq(rest, start + 1, Len(rest))

\* The 0-based loop index itself as the order
ReorderOrderZeroBased(i) == i - 1

\* The order the loop writes for the photo at 1-based position i: i + 1 of the
\* 0-based loop index
ReorderOrder(i) == i

RECURSIVE ReorderLoop(_, _, _)
\* The table after the loop has run from position i to the end of photos
ReorderLoop(table, photos, i) ==
    IF i > Len(photos) THEN table
    ELSE ReorderLoop(updatePhoto(table, photos[i].id,
                                 [photos[i] EXCEPT !.order = JsNum(ReorderOrder(i))]),
                     photos, i + 1)

\* POST /admin/reorder-photos
ReorderPhotos(authHeader, body) ==
    LET gate == requireAuth(authHeader)
    IN  /\ req' = Request("POST /admin/reorder-photos", authHeader, <<>>, 0, body)
        /\ IF gate # 0 THEN Refused(gate)
           ELSE \E photos \in getGallery :
                  LET found == Positions(photos, body.photoId)
                      photoIndex == CHOOSE i \in found : \A j \in found : i <= j
                  IN  IF found = {}
                      THEN /\ res' = Response(404, "Media item not found", "", 0,
                                              FALSE, <<>>)
                           /\ calls' = <<>>
                           /\ UNCHANGED <<dbFile, deleting, adminPassword,
                                          requestCounts, now, store, disk, history>>
                      ELSE /\ gallery' = ReorderLoop(gallery,
                                            Moved(photos, photoIndex, body.targetIndex), 1)
                           /\ res' = Response(200, "", "", 0, TRUE, <<>>)
                           /\ calls' = <<>>
                           /\ UNCHANGED <<dbFile, deleting, adminPassword,
                                          requestCounts, now, tours, toursSeq,
                                          countdown, gallerySettings, disk, history>>

\* A call the handler makes, as the variable calls records it: the method, its
\* argument (a row id or a file name) and how it failed, "" when it did not
Call(call, arg, error) == [call |-> call, arg |-> arg, error |-> error]

\* await fs.unlink(path.join(GALLERY_DIR, name)) inside try/catch: the call and
\* the directory after it; it rejects when the file is not there, and when
\* fails says that the file system refuses
Unlink(dir, name, fails) ==
    LET error == IF fails \/ name \notin dir THEN "rejected" ELSE ""
    IN  [call |-> Call("unlink", name, error),
         dir |-> IF error = "" THEN dir \ {name} ELSE dir]

\* Unlinks that take the thumbnail whatever its name
UnlinksBoth(dir, photo, fails) ==
    LET first == Unlink(dir, photo.filename, fails[1])
        second == Unlink(first.dir, photo.thumbnail, fails[2])
    IN  [calls |-> <<first.call, second.call>>, dir |-> second.dir]

\* The unlinks of the delete handler: the file, then the thumbnail when the row
\* has one under another name
Unlinks(dir, photo, fails) ==
    LET first == Unlink(dir, photo.filename, fails[1])
        second == Unlink(first.dir, photo.thumbnail, fails[2])
    IN  IF photo.thumbnail # NoFile /\ photo.thumbnail # photo.filename
        THEN [calls |-> <<first.call, second.call>>, dir |-> second.dir]
        ELSE [calls |-> <<first.call>>, dir |-> first.dir]

\* DELETE /admin/delete-photo; fails[k] says that the file system refuses the
\* k-th unlink
DeletePhoto(authHeader, body, fails) ==
    LET gate == requireAuth(authHeader)
    IN  /\ req' = Request("DELETE /admin/delete-photo", authHeader, <<>>, 0, body)
        /\ IF gate # 0 THEN Refused(gate)
           ELSE \E photos \in getGallery :
                  LET found == Positions(photos, body.photoId)
                      photo == photos[CHOOSE i \in found : \A j \in found : i <= j]
                      unlinks == Unlinks(files, photo, fails)
                  IN  IF found = {}
                      THEN /\ res' = Response(404, "Media item not found", "", 0,
                                              FALSE, <<>>)
                           /\ calls' = <<>>
                           /\ UNCHANGED <<dbFile, deleting, adminPassword,
                                          requestCounts, admitted, now, store, disk,
                                          issued, added, deleted, lastWrite>>
                      ELSE /\ gallery' = deletePhoto(gallery, photo.id)
                           /\ files' = unlinks.dir
                           /\ calls' = <<Call("deletePhoto", photo.id, "")>>
                                       \o unlinks.calls
                           /\ res' = Response(200, "", "", 0, TRUE, <<>>)
                           /\ UNCHANGED <<dbFile, deleting, adminPassword,
                                          requestCounts, admitted, now, tours, toursSeq,
                                          countdown, gallerySettings, fileSeq, bandInfo,
                                          bandInfoBackups, backups, issued, added,
                                          deleted, lastWrite>>

\* No unlink refused
NoFails == <<FALSE, FALSE>>

\* limits.fileSize of the multer instance, in bytes
FileSizeLimit == 200 * 1024 * 1024

\* The field names of upload.fields, each with maxCount 1
UploadFields == {"media", "thumbnail"}

NoUploadError == [status |-> 0, message |-> ""]

\* Why multer refuses part i of a multipart body: a field that is
\* not expected or comes a second time, a type fileFilter turns down, a file
\* over the size limit; NoUploadError when it stores the part
PartError(parts, i) ==
    LET part == parts[i]
    IN  IF \/ part.field \notin UploadFields
           \/ \E j \in 1..(i - 1) : parts[j].field = part.field
        THEN [status |-> 400, message |-> "Unexpected file field received"]
        ELSE IF /\ part.field = "media"
                /\ ~StartsWithType(part.mimetype, "image")
                /\ ~StartsWithType(part.mimetype, "video")
        THEN [status |-> 400,
              message |-> "Unsupported media type. Please upload images or videos only."]
        ELSE IF part.field = "thumbnail" /\ ~StartsWithType(part.mimetype, "image")
        THEN [status |-> 400, message |-> "Thumbnail must be an image file."]
        ELSE IF part.size > FileSizeLimit
        THEN [status |-> 413, message |-> "File exceeds the 200 MB size limit"]
        ELSE NoUploadError

\* The error handleMediaUpload answers with: that of the first part refused
UploadError(parts) ==
    LET bad == {i \in DOMAIN parts : PartError(parts, i) # NoUploadError}
    IN  IF bad = {} THEN NoUploadError
        ELSE PartError(parts, CHOOSE i \in bad : \A j \in bad : i <= j)

\* req.files[field]?.[0] after multer has stored every part: the part with the
\* file name the storage gave it, or no file
UploadedFile(parts, field) ==
    LET at == {i \in DOMAIN parts : parts[i].field = field}
    IN  IF at = {} THEN [filename |-> NoFile, mimetype |-> <<>>, originalname |-> <<>>]
        ELSE LET i == CHOOSE j \in at : TRUE
             IN  [filename |-> fileSeq + i, mimetype |-> parts[i].mimetype,
                  originalname |-> parts[i].originalname]

\* The lower case of a character of the model's alphabet
LowerChar(c) ==
    CASE c = "V" -> "v"
      [] c = "I" -> "i"
      [] c = "D" -> "d"
      [] c = "E" -> "e"
      [] c = "O" -> "o"
      [] OTHER -> c

\* s.toLowerCase()
ToLowerCase(s) == [i \in DOMAIN s |-> LowerChar(s[i])]

Video == <<"v", "i", "d", "e", "o">>

\* newPhoto of the upload handlers, with the id generateId() returned
NewPhoto(id, fields, mediaFile, thumbnailFile) ==
    LET mediaType ==
            IF \/ ToLowerCase(OrElse(fields.mediaType, EmptyStr).s) = Video
               \/ StartsWithType(mediaFile.mimetype, "video")
            THEN "video" ELSE "photo"
        order == ParseInt(fields.order)
    IN  [id |-> id,
         filename |-> mediaFile.filename,
         title |-> OrElse(fields.title, JsStr(mediaFile.originalname)),
         description |-> OrElse(fields.description, EmptyStr),
         order |-> IF IsNaN(order) \/ order.n = 0 THEN JsNum(getNextGalleryOrder)
                   ELSE order,
         mediaType |-> mediaType,
         thumbnail |-> IF thumbnailFile.filename = NoFile /\ mediaType = "photo"
                       THEN mediaFile.filename ELSE thumbnailFile.filename,
         mimeType |-> mediaFile.mimetype]

\* The files multer has written for the request when it gives up on it: those
\* of the parts before the first one refused, and the cut-off file of a part
\* over the size limit
WrittenBeforeError(parts) ==
    LET bad == {i \in DOMAIN parts : PartError(parts, i) # NoUploadError}
        first == CHOOSE i \in bad : \A j \in bad : i <= j
    IN  IF bad = {} THEN {}
        ELSE {fileSeq + i : i \in 1..(first - 1)}
             \cup (IF PartError(parts, first).status = 413 THEN {fileSeq + first}
                   ELSE {})

\* A clean-up that removes nothing
RemoveUploadedKeeps(dir, written) == dir

\* The directory after multer, on an error, has removed the files it had
\* written for the request
RemoveUploaded(dir, written) == dir \ written

\* One db.addPhoto(photoData): a taken id breaks the PRIMARY KEY constraint;
\* fault says that the statement fails for another reason
InsertAttempt(table, photoData, fault) ==
    LET error == IF fault THEN "other"
                 ELSE IF addPhotoThrows(table, photoData) THEN "constraint"
                 ELSE ""
    IN  [call |-> Call("addPhoto", photoData.id, error),
         threw |-> error # "",
         table |-> IF error = "" THEN addPhoto(table, photoData) ELSE table,
         photo |-> photoData]

\* An insert with no retry
InsertOnce(table, newPhoto, id2, faults) ==
    LET first == InsertAttempt(table, newPhoto, faults[1])
    IN  [calls |-> <<first.call>>, threw |-> first.threw, table |-> first.table,
         photo |-> newPhoto]

\* try { db.addPhoto(newPhoto) } catch (insertErr) { newPhoto.id = generateId();
\* db.addPhoto(newPhoto) }: id2 is the id of the retry, faults[k] the fault of
\* attempt k
InsertWithRetry(table, newPhoto, id2, faults) ==
    LET first == InsertAttempt(table, newPhoto, faults[1])
        second == InsertAttempt(table, [newPhoto EXCEPT !.id = id2], faults[2])
    IN  IF ~first.threw
        THEN [calls |-> <<first.call>>, threw |-> FALSE, table |-> first.table,
              photo |-> first.photo]
        ELSE [calls |-> <<first.call, second.call>>, threw |-> second.threw,
              table |-> second.table, photo |-> second.photo]

\* No fault of the database
NoFaults == <<FALSE, FALSE>>

\* POST /admin/add-photo and POST /upload run the same steps: the gate,
\* handleMediaUpload, then the handler; id1 and id2 are what generateId()
\* returns for the first insert and for the retry, faults the faults of the
\* database at the two inserts
UploadRoute(op, authHeader, form, id1, id2, faults) ==
    LET gate == requireAuth(authHeader)
        uploadError == UploadError(form.parts)
        stored == {fileSeq + i : i \in DOMAIN form.parts}
        mediaFile == UploadedFile(form.parts, "media")
        thumbnailFile == UploadedFile(form.parts, "thumbnail")
        newPhoto == NewPhoto(id1, form.fields, mediaFile, thumbnailFile)
        insert == InsertWithRetry(gallery, newPhoto, id2, faults)
        others == <<dbFile, deleting, adminPassword, requestCounts, admitted, now,
                    tours, toursSeq, countdown, gallerySettings, bandInfo,
                    bandInfoBackups, backups, issued, added, deleted, lastWrite>>
    IN  /\ req' = Request(op, authHeader, <<>>, 0, form)
        /\ IF gate # 0 THEN Refused(gate)
           ELSE IF uploadError # NoUploadError
           THEN /\ res' = Response(uploadError.status, uploadError.message, "", 0,
                                   FALSE, <<>>)
                /\ files' = RemoveUploaded(files \cup WrittenBeforeError(form.parts),
                                           WrittenBeforeError(form.parts))
                /\ calls' = <<>>
                /\ UNCHANGED <<gallery, fileSeq, others>>
           ELSE /\ files' = files \cup stored
                /\ fileSeq' = fileSeq + Len(form.parts)
                /\ IF mediaFile.filename = NoFile
                   THEN /\ res' = Response(400, "No media file uploaded", "", 0,
                                           FALSE, <<>>)
                        /\ calls' = <<>>
                        /\ UNCHANGED <<gallery, others>>
                   ELSE /\ calls' = insert.calls
                        /\ gallery' = insert.table
                        /\ res' = IF insert.threw
                                  THEN Response(500, "Error uploading media", "", 0,
                                                FALSE, <<>>)
                                  ELSE Response(200, "", "", 0, TRUE, <<insert.photo>>)
                        /\ UNCHANGED others

\* POST /admin/add-photo
PostAddPhoto(authHeader, form, id1, id2, faults) ==
    UploadRoute("POST /admin/add-photo", authHeader, form, id1, id2, faults)

\* POST /upload
PostUpload(authHeader, form, id1, id2, faults) ==
    UploadRoute("POST /upload", authHeader, form, id1, id2, faults)

Tick ==
    /\ now' = now + 1
    /\ req' = Request("", Absent, <<>>, 0, NoBody)
    /\ res' = Response(0, "", "", 0, FALSE, <<>>)
    /\ calls' = <<>>
    /\ UNCHANGED <<dbFile, deleting, adminPassword, requestCounts, store, disk, history>>

\* The requests of DELETE /admin/delete-photo that can be in flight together
DeleteSlots == {1, 2}

\* A slot with no request in flight
IdleDelete ==
    [pc |-> "idle", photoId |-> Undefined, filename |-> NoFile, thumbnail |-> NoFile]

\* What no step of a deletion changes
DeleteFrame ==
    <<dbFile, adminPassword, requestCounts, admitted, now, tours, toursSeq, countdown,
      gallerySettings, fileSeq, bandInfo, bandInfoBackups, backups, issued, added,
      deleted, lastWrite>>

\* A deletePhoto that removes no row
deletePhotoLater(table, id) == table

\* const success = db.deletePhoto(photoId), called before the first await
deletePhotoBeforeAwait(table, id) == deletePhoto(table, id)

\* The handler of DELETE /admin/delete-photo for the request in slot k, from
\* its start to its first await: the gate, the lookup and db.deletePhoto are
\* synchronous and run without another handler in between; a photo that is
\* found leaves the handler waiting for fs.unlink of the file
DeleteStart(k, authHeader, body) ==
    LET gate == requireAuth(authHeader)
    IN  /\ deleting[k].pc = "idle"
        /\ req' = Request("DELETE /admin/delete-photo", authHeader, <<>>, k, body)
        /\ IF gate # 0 THEN Refused(gate)
           ELSE \E photos \in getGallery :
                  LET found == Positions(photos, body.photoId)
                      photo == photos[CHOOSE i \in found : \A j \in found : i <= j]
                  IN  IF found = {}
                      THEN /\ res' = Response(404, "Media item not found", "", 0,
                                              FALSE, <<>>)
                           /\ calls' = <<>>
                           /\ UNCHANGED <<deleting, gallery, files, DeleteFrame>>
                      ELSE /\ gallery' = deletePhotoBeforeAwait(gallery, photo.id)
                           /\ deleting' =
                                 [deleting EXCEPT
                                    ![k] = [pc |-> "unlinkFile",
                                            photoId |-> body.photoId,
                                            filename |-> photo.filename,
                                            thumbnail |-> photo.thumbnail]]
                           /\ calls' = <<Call("deletePhoto", photo.id, "")>>
                           /\ res' = Response(0, "", "", 0, TRUE, <<>>)
                           /\ UNCHANGED <<files, DeleteFrame>>

\* await fs.unlink(filePath) of the request in slot k settles; the handler
\* goes on to the thumbnail when the photo has one under another name, and
\* answers otherwise
DeleteUnlinkFile(k, fails) ==
    LET d == deleting[k]
        first == Unlink(files, d.filename, fails)
        more == d.thumbnail # NoFile /\ d.thumbnail # d.filename
    IN  /\ d.pc = "unlinkFile"
        /\ req' = Request("unlink", Absent, <<>>, k, [photoId |-> d.photoId])
        /\ files' = first.dir
        /\ calls' = <<first.call>>
        /\ deleting' = [deleting EXCEPT
                          ![k] = IF more THEN [d EXCEPT !.pc = "unlinkThumbnail"]
                                 ELSE IdleDelete]
        /\ res' = IF more THEN Response(0, "", "", 0, TRUE, <<>>)
                  ELSE Response(200, "", "", 0, TRUE, <<>>)
        /\ UNCHANGED <<gallery, DeleteFrame>>

\* await fs.unlink(thumbnailPath) of the request in slot k settles and the
\* handler answers
DeleteUnlinkThumbnail(k, fails) ==
    LET d == deleting[k]
        second == Unlink(files, d.thumbnail, fails)
    IN  /\ d.pc = "unlinkThumbnail"
        /\ req' = Request("unlink", Absent, <<>>, k, [photoId |-> d.photoId])
        /\ files' = second.dir
        /\ calls' = <<second.call>>
        /\ deleting' = [deleting EXCEPT ![k] = IdleDelete]
        /\ res' = Response(200, "", "", 0, TRUE, <<>>)
        /\ UNCHANGED <<gallery, DeleteFrame>>

-----------------------------------------------------------------------------
(* Routes, backup and band info: server.js *)

\* PRAGMA journal_mode = WAL: a commit is appended to the -wal file, and a
\* checkpoint, which SQLite runs when the -wal file has grown to its
\* threshold or the connection closes, moves the commits into the main file
Checkpoint ==
    /\ dbFile.main # store
    /\ dbFile' = [dbFile EXCEPT !.main = store]
    /\ req' = Request("", Absent, <<>>, 0, NoBody)
    /\ res' = Response(0, "", "", 0, FALSE, <<>>)
    /\ calls' = <<>>
    /\ UNCHANGED <<deleting, adminPassword, requestCounts, now, store, disk, history>>

\* createBackup: fs.copyFile(this.dbPath, backupPath) copies the main file
createBackup == [dbFile EXCEPT !.backup = <<dbFile.main>>]

\* POST /api/backup: createBackup copies the database file to ./backups
PostBackup(authHeader) ==
    LET gate == requireAuth(authHeader)
    IN  /\ req' = Request("POST /api/backup", authHeader, <<>>, 0, NoBody)
        /\ IF gate # 0 THEN Refused(gate)
           ELSE /\ backups' = backups + 1
                /\ dbFile' = createBackup
                /\ res' = Response(200, "", "", 0, TRUE, <<>>)
                /\ calls' = <<>>
                /\ UNCHANGED <<deleting, adminPassword, requestCounts, now, store,
                               files, fileSeq, bandInfo, bandInfoBackups, history>>

\* The length the sanitize of PUT /api/band-info cuts a string at
BandInfoMaxLength == 1000

\* sanitize(v): a string loses its tags and is cut, any other value is kept
BandInfoSanitize(v) ==
    IF TypeOf(v) = "string" THEN JsStr(Substring0(StripTags(v.s), BandInfoMaxLength))
    ELSE v

\* A body of PUT /api/band-info is [band, name]: the value of incoming.band
\* and that of incoming.band.name
\* !incoming || typeof incoming !== 'object' || !incoming.band
NoBandObject(incoming) == ~Truthy(incoming.band)

\* PUT /api/band-info, for the name of the band: the incoming name, else the
\* current one, sanitized; the current file is copied to data/backups first
PutBandInfo(authHeader, incoming) ==
    LET gate == requireAuth(authHeader)
        name == OrElse(OrElse(incoming.name, bandInfo.name), EmptyStr)
    IN  /\ req' = Request("PUT /api/band-info", authHeader, <<>>, 0, incoming)
        /\ IF gate # 0 THEN Refused(gate)
           ELSE IF NoBandObject(incoming)
           THEN ClientError("Invalid payload: missing band object", "")
           ELSE /\ bandInfoBackups' = bandInfoBackups \cup {bandInfo}
                /\ bandInfo' = [name |-> BandInfoSanitize(name)]
                /\ res' = Response(200, "", "", 0, TRUE, <<>>)
                /\ calls' = <<>>
                /\ UNCHANGED <<dbFile, deleting, adminPassword, requestCounts, now,
                               store, files, fileSeq, backups, history>>

\* GET /admin: password is req.query.password, compared with !== to
\* ADMIN_PASSWORD as read from the environment; status 200 is the admin page
GetAdmin(password) ==
    /\ req' = Request("GET /admin", Absent, <<>>, 0, [password |-> password])
    /\ res' = IF password # adminPassword
              THEN Response(401, "Access Denied", "", 0, FALSE, <<>>)
              ELSE Response(200, "", "", 0, TRUE, <<>>)
    /\ calls' = <<>>
    /\ UNCHANGED <<dbFile, deleting, adminPassword, requestCounts, now, store, disk,
                   history>>

-----------------------------------------------------------------------------
(* The orphan sweep (scripts/cleanup-orphaned-photos.js)                   *)

\* new Set(dbPhotos.map(photo => photo.filename))
DbFilenames(photos) == {photos[i].filename : i \in DOMAIN photos}

\* filesList.filter(filename => !dbFilenames.has(filename))
OrphanedFiles(filesList, photos) == filesList \ DbFilenames(photos)

\* cleanupOrphanedPhotos: images are the files of the media directory whose
\* extension is one of .jpg .jpeg .png .gif .webp (the extension is that of
\* the uploaded file's original name, which the file names of the model do not
\* carry); failed are the files whose unlink the file system refuses
cleanupOrphanedPhotos(images, failed) ==
    \E photos \in getGallery :
        /\ req' = Request("cleanupOrphanedPhotos", Absent, <<>>, 0, NoBody)
        /\ res' = Response(0, "", "", 0, TRUE, <<>>)
        /\ files' = files \ (OrphanedFiles(images, photos) \ failed)
        /\ calls' = <<>>
        /\ UNCHANGED <<dbFile, deleting, adminPassword, requestCounts, now, store,
                       fileSeq, bandInfo, bandInfoBackups, backups, history>>

-----------------------------------------------------------------------------
(* The rate limiter: server.js *)

\* In milliseconds
RATE_LIMIT_WINDOW == 60000

MAX_REQUESTS == 100

\* Date.now(), with the clock in seconds
DateNow == now * 1000

\* requestCounts.has(ip) on a Map
HasIp(counts, ip) == \E e \in counts : e.ip = ip

\* requestCounts.get(ip)
ClientData(counts, ip) == CHOOSE e \in counts : e.ip = ip

\* A limiter whose refused requests start the window again
CountedPostponing(counts, ip, t) ==
    IF ~HasIp(counts, ip) \/ t > ClientData(counts, ip).resetTime
    THEN [ip |-> ip, count |-> 1, resetTime |-> t + RATE_LIMIT_WINDOW]
    ELSE [ClientData(counts, ip) EXCEPT !.count = @ + 1,
                                        !.resetTime = t + RATE_LIMIT_WINDOW]

\* The entry of ip after rateLimit has counted a request at time t
Counted(counts, ip, t) ==
    IF ~HasIp(counts, ip) \/ t > ClientData(counts, ip).resetTime
    THEN [ip |-> ip, count |-> 1, resetTime |-> t + RATE_LIMIT_WINDOW]
    ELSE [ClientData(counts, ip) EXCEPT !.count = @ + 1]

\* rateLimit answers 429: the address has an entry and its count has passed
\* MAX_REQUESTS
Limited(counts, ip, t) ==
    HasIp(counts, ip) /\ Counted(counts, ip, t).count > MAX_REQUESTS

\* History: one more request of ip let pass at time t
Admit(seen, ip, t) ==
    IF \E a \in seen : a.ip = ip /\ a.at = t
    THEN {IF a.ip = ip /\ a.at = t THEN [a EXCEPT !.n = @ + 1] ELSE a : a \in seen}
    ELSE seen \cup {[ip |-> ip, at |-> t, n |-> 1]}

\* History: what of it lies in the RATE_LIMIT_WINDOW milliseconds that end
\* with time t
Recent(seen, t) == {a \in seen : t - a.at < RATE_LIMIT_WINDOW}

\* rateLimit for a request of address ip: status 0 with ok stands for next(),
\* after which the request is with the handlers of its route
rateLimitFor(ip, request) ==
    LET limited == Limited(requestCounts, ip, DateNow)
    IN  /\ requestCounts' = {e \in requestCounts : e.ip # ip}
                            \cup {Counted(requestCounts, ip, DateNow)}
        /\ req' = request
        /\ res' = IF limited
                  THEN Response(429, "Too many requests", "", 0, FALSE, <<>>)
                  ELSE Response(0, "", "", 0, TRUE, <<>>)
        /\ admitted' = Recent(IF limited THEN admitted
                              ELSE Admit(admitted, ip, DateNow), DateNow)
        /\ calls' = <<>>
        /\ UNCHANGED <<dbFile, deleting, adminPassword, now, store, disk, issued, added,
                       deleted, lastWrite>>

\* rateLimit alone, for a request of which only the address matters
rateLimit(ip) == rateLimitFor(ip, Request("rateLimit", Absent, ip, 0, NoBody))

\* rateLimit has called next() for the request req and its route has not
\* answered yet
Pending == res = Response(0, "", "", 0, TRUE, <<>>) /\ req.op # "rateLimit"

\* d seconds pass with no request
Pass(d) ==
    /\ now' = now + d
    /\ req' = Request("", Absent, <<>>, 0, NoBody)
    /\ res' = Response(0, "", "", 0, FALSE, <<>>)
    /\ admitted' = Recent(admitted, (now + d) * 1000)
    /\ calls' = <<>>
    /\ UNCHANGED <<dbFile, deleting, adminPassword, requestCounts, store, disk, issued,
                   added, deleted, lastWrite>>

-----------------------------------------------------------------------------
(* Direct calls of the store, as the migration script and the tests make them *)

\* db.getTours()
CallGetTours ==
    /\ req' = Request("getTours", Absent, <<>>, 0, NoBody)
    /\ \E l \in getTours : res' = Response(0, "", "", 0, TRUE, l)
    /\ calls' = <<>>
    /\ UNCHANGED <<dbFile, deleting, adminPassword, requestCounts, now, store, disk,
                   history>>

\* db.addTour(tourData)
CallAddTour(tourData) ==
    LET id == NewTourId
    IN  /\ req' = Request("addTour", Absent, <<>>, 0, tourData)
        /\ tours' = addTour(tourData)
        /\ toursSeq' = id
        /\ res' = Response(0, "", "", id, TRUE, <<[id |-> id, data |-> tourData]>>)
        /\ NoteAdded(id, tourData)
        /\ calls' = <<>>
        /\ UNCHANGED <<dbFile, deleting, adminPassword, requestCounts, admitted, now,
                       gallery, disk, countdown, gallerySettings, lastWrite>>

\* db.updateTour(id, tourData)
CallUpdateTour(id, tourData) ==
    /\ req' = Request("updateTour", Absent, <<>>, id, tourData)
    /\ tours' = updateTour(id, tourData)
    /\ res' = Response(0, "", "", id, updateTourChanges(id) > 0, <<>>)
    /\ NoteUpdated(id)
    /\ calls' = <<>>
    /\ UNCHANGED <<dbFile, deleting, adminPassword, requestCounts, admitted, now,
                   gallery, disk, toursSeq, countdown, gallerySettings, lastWrite>>

\* db.deleteTour(id)
CallDeleteTour(id) ==
    /\ req' = Request("deleteTour", Absent, <<>>, id, NoBody)
    /\ tours' = deleteTour(id)
    /\ res' = Response(0, "", "", id, deleteTourChanges(id) > 0, <<>>)
    /\ NoteDeleted(id, deleteTourChanges(id))
    /\ calls' = <<>>
    /\ UNCHANGED <<dbFile, deleting, adminPassword, requestCounts, admitted, now,
                   gallery, disk, toursSeq, countdown, gallerySettings, lastWrite>>

\* db.getCountdown()
CallGetCountdown ==
    /\ req' = Request("getCountdown", Absent, <<>>, 0, NoBody)
    /\ \E c \in getCountdown : res' = Response(0, "", "", 0, TRUE, c)
    /\ calls' = <<>>
    /\ UNCHANGED <<dbFile, deleting, adminPassword, requestCounts, now, store, disk,
                   history>>

\* db.updateCountdown(countdownData)
CallUpdateCountdown(countdownData) ==
    /\ req' = Request("updateCountdown", Absent, <<>>, 0, countdownData)
    /\ countdown' = updateCountdown(countdownData)
    /\ \E c \in getCountdownOf(countdown') : res' = Response(0, "", "", 0, TRUE, c)
    /\ lastWrite' = [lastWrite EXCEPT !.countdown = <<countdownData>>]
    /\ calls' = <<>>
    /\ UNCHANGED <<dbFile, deleting, adminPassword, requestCounts, admitted, now,
                   gallery, disk, tours, toursSeq, gallerySettings, issued, added,
                   deleted>>

\* db.updateGallerySettings(enabled)
CallUpdateGallerySettings(enabled) ==
    /\ req' = Request("updateGallerySettings", Absent, <<>>, 0, enabled)
    /\ gallerySettings' = updateGallerySettings(enabled)
    /\ \E e \in galleryEnabledOf(gallerySettings') :
          res' = Response(0, "", "", 0, e, <<>>)
    /\ lastWrite' = [lastWrite EXCEPT !.enabled = <<enabled>>]
    /\ calls' = <<>>
    /\ UNCHANGED <<dbFile, deleting, adminPassword, requestCounts, admitted, now,
                   gallery, disk, tours, toursSeq, countdown, issued, added, deleted>>

\* db.getGallery().gallery.enabled
CallGetGalleryEnabled ==
    /\ req' = Request("getGallery", Absent, <<>>, 0, NoBody)
    /\ \E e \in galleryEnabledOf(gallerySettings) :
          res' = Response(0, "", "", 0, e, <<>>)
    /\ calls' = <<>>
    /\ UNCHANGED <<dbFile, deleting, adminPassword, requestCounts, now, store, disk,
                   history>>

-----------------------------------------------------------------------------
(* Requests *)

D1 == <<"2", "5">>

D2 == <<"2", "6">>

Tag == <<"<", "b", ">">>

\* A nested tag around text: <<b>a>
NestedTag == <<"<">> \o Tag \o <<"a", ">">>

\* An unterminated tag: <a
OpenTag == <<"<", "a">>

\* The string of n characters "a"
Long(n) == JsStr(Rep("a", n))

\* Values of a required field that are missing, no string, or blank
BlankProbes == {Undefined, Null, JsNum(7), EmptyStr, JsStr(<<" ", " ">>)}

\* Strings with markup: a tag, a tag before text, a nested tag, an unterminated
\* tag, a lone '<' at the end, a tag between blanks
MarkupProbes ==
    {JsStr(Tag), JsStr(Tag \o <<"a">>), JsStr(NestedTag), JsStr(OpenTag),
     JsStr(<<"a", "<">>), JsStr(<<" ">> \o Tag \o <<" ">>)}

\* Strings longer than the default maximum, with and without markup
LongProbes ==
    {Long(DefaultMaxLength + 1),
     JsStr(Rep("a", DefaultMaxLength - 1) \o Tag \o <<"a", "<", "a">>),
     JsStr(<<"<">> \o Rep("a", DefaultMaxLength)),
     JsStr(Tag \o Rep("a", DefaultMaxLength + 1))}

BaseTour ==
    [date |-> JsStr(D1), city |-> JsStr(<<"a">>), venue |-> JsStr(<<"b">>),
     ticketLink |-> Undefined]

OtherTour ==
    [date |-> JsStr(D2), city |-> JsStr(<<"b">>), venue |-> JsStr(<<"a">>),
     ticketLink |-> JsStr(<<"a">>)]

\* Bodies of POST and PUT /api/tours that probe validation: the base tour with
\* one field missing, no string, blank, or at and over its length limit, and
\* bodies with two failing fields
ValidationBodies ==
    {BaseTour}
    \cup {[BaseTour EXCEPT !.date = v] : v \in BlankProbes}
    \cup {[BaseTour EXCEPT !.city = v] :
            v \in BlankProbes \cup {Long(MaxCityLength), Long(MaxCityLength + 1)}}
    \cup {[BaseTour EXCEPT !.venue = v] :
            v \in BlankProbes \cup {Long(MaxVenueLength), Long(MaxVenueLength + 1)}}
    \cup {[BaseTour EXCEPT !.city = Long(MaxCityLength + 1), !.venue = Undefined],
          [BaseTour EXCEPT !.city = Long(MaxCityLength),
                           !.venue = Long(MaxVenueLength)],
          [BaseTour EXCEPT !.city = Long(MaxCityLength + 1),
                           !.venue = Long(MaxVenueLength + 1)]}

\* Bodies of POST and PUT /api/tours that probe sanitization
MarkupBodies ==
    {BaseTour}
    \cup {[BaseTour EXCEPT !.city = v] : v \in MarkupProbes}
    \cup {[BaseTour EXCEPT !.venue = v] : v \in {JsStr(Tag), JsStr(OpenTag)}}
    \cup {[BaseTour EXCEPT !.venue = JsStr(Tag \o Rep("a", MaxVenueLength - 3))]}
    \cup {[BaseTour EXCEPT !.date = JsStr(Tag)]}
    \cup {[BaseTour EXCEPT !.ticketLink = v] :
            v \in {Null, JsNum(7), JsStr(OpenTag), JsStr(NestedTag)} \cup LongProbes}

Digits == <<"0", "1", "2", "3", "4", "5", "6", "7", "8", "9">>

\* The decimal text of a one-digit number
IdText(n) == <<Digits[n + 1]>>

\* :id of PUT and DELETE /api/tours/:id: the ids up to n, a text that is no
\* number and one that starts with a number
TourParams(n) == {IdText(i) : i \in 1..n} \cup {<<"x">>, <<"1", "x">>}

BaseCountdown ==
    [title |-> JsStr(<<"a">>), description |-> JsStr(<<"b">>),
     releaseDate |-> JsStr(D1), enabled |-> JsBool(TRUE),
     completedTitle |-> Undefined, completedDescription |-> Undefined]

\* A countdown body with the four texts given
CountdownTexts(a, b, c, d) ==
    [BaseCountdown EXCEPT !.title = a, !.description = b, !.completedTitle = c,
                          !.completedDescription = d]

\* The bodies of POST /api/countdown
CountdownBodies ==
    {BaseCountdown,
     CountdownTexts(Undefined, JsNum(7), EmptyStr, Null),
     CountdownTexts(JsStr(Tag \o <<"a">>), JsStr(OpenTag), JsStr(NestedTag),
                    JsStr(<<"a", "<">>)),
     CountdownTexts(JsStr(OpenTag), JsStr(NestedTag), JsStr(<<"a", "<">>),
                    JsStr(Tag \o <<"a">>)),
     CountdownTexts(Long(DefaultMaxLength + 1),
                    JsStr(Rep("a", DefaultMaxLength - 1) \o Tag \o <<"a", "<", "a">>),
                    JsStr(<<"<">> \o Rep("a", DefaultMaxLength)),
                    JsStr(Tag \o Rep("a", DefaultMaxLength + 1))),
     [BaseCountdown EXCEPT !.enabled = Undefined, !.releaseDate = Undefined]}

TheSecret == "s3cret"

\* The values of ADMIN_PASSWORD: not set, set to the empty string, set
Passwords == {Absent, Text(""), Text(TheSecret)}

GoodHeader == Text("Bearer " \o TheSecret)

\* Authorization headers: none, the empty one, the right one, a wrong secret,
\* the text an unset secret would give the template, the scheme alone, the
\* secret alone, the scheme in lower case
AuthHeaders ==
    {Absent, Text(""), GoodHeader, Text("Bearer wrong"), Text("Bearer undefined"),
     Text("Bearer "), Text(TheSecret), Text("bearer " \o TheSecret)}

\* tourData of the direct calls of addTour and updateTour
StoreTours ==
    {BaseTour, OtherTour,
     [BaseTour EXCEPT !.ticketLink = Null],
     [OtherTour EXCEPT !.date = JsStr(D1), !.ticketLink = EmptyStr]}

\* countdownData of the direct calls of updateCountdown
StoreCountdowns ==
    {[BaseCountdown EXCEPT !.completedTitle = JsStr(<<"a">>),
                           !.completedDescription = JsStr(<<"b">>)]
        @@ [preReleaseMessage |-> JsStr(<<"a">>)],
     [BaseCountdown EXCEPT !.title = JsStr(<<"b">>), !.enabled = JsBool(FALSE)]
        @@ [preReleaseMessage |-> Undefined],
     [BaseCountdown EXCEPT !.title = Undefined, !.description = Undefined,
                           !.releaseDate = Undefined, !.enabled = Undefined]
        @@ [preReleaseMessage |-> Undefined],
     [BaseCountdown EXCEPT !.releaseDate = JsStr(D2)]
        @@ [preReleaseMessage |-> JsStr(<<"b">>)]}

\* The argument of the direct calls of updateGallerySettings
StoreEnabled == {JsBool(TRUE), JsBool(FALSE), Undefined}

\* The n-th identifier generateId() returns: randomUUID() never returns the
\* same identifier twice
PhotoId(n) == <<"p">> \o IdText(n)

P1 == PhotoId(1)

P2 == PhotoId(2)

ImagePng == <<"image", "png">>

VideoMp4 == <<"video", "mp4">>

\* A part of a multipart body of one byte
FilePart(field, mimetype) ==
    [field |-> field, mimetype |-> mimetype, originalname |-> <<"a">>, size |-> 1]

\* The text fields of a multipart body with the order given
FormFields(order) ==
    [title |-> Undefined, description |-> Undefined, order |-> order,
     mediaType |-> Undefined]

\* An upload of one image with the order given
ImageForm(order) ==
    [parts |-> <<FilePart("media", ImagePng)>>, fields |-> FormFields(order)]

\* An upload of one video with no thumbnail and no order
VideoForm ==
    [parts |-> <<FilePart("media", VideoMp4)>>, fields |-> FormFields(Undefined)]

\* The uploads of the gallery specification: an image with no order and one
\* with order 1
GalleryForms == {ImageForm(Undefined), ImageForm(JsStr(<<"1">>))}

\* Bodies of POST /admin/reorder-photos: every id with every index of a
\* gallery of n items, and indexes that are none of a gallery of n items
ReorderBodies(n) ==
    {[photoId |-> JsStr(PhotoId(i)), targetIndex |-> JsNum(k)] :
        i \in 1..n, k \in 0..(n - 1)}
    \cup {[photoId |-> Undefined, targetIndex |-> JsNum(0)],
          [photoId |-> JsStr(P1), targetIndex |-> JsNum(n)],
          [photoId |-> JsStr(P2), targetIndex |-> JsNum(0 - 1)],
          [photoId |-> JsStr(P1), targetIndex |-> Undefined]}

\* Bodies of DELETE /admin/delete-photo for the first n identifiers
DeleteBodies(n) ==
    {[photoId |-> JsStr(PhotoId(i))] : i \in 1..n} \cup {[photoId |-> Undefined]}

\* Bodies of PUT /api/band-info: none, a band with a name, a band without
BandInfoBodies ==
    {[band |-> Undefined, name |-> Undefined],
     [band |-> JsObject, name |-> JsStr(Tag \o <<"b">>)],
     [band |-> JsObject, name |-> Undefined]}


TextPlain == <<"text", "plain">>

\* A part one byte over the size limit
BigPart(field, mimetype) ==
    [FilePart(field, mimetype) EXCEPT !.size = FileSizeLimit + 1]

\* A multipart body of the parts given, in the order sent, with no text field
PartsForm(parts) == [parts |-> parts, fields |-> FormFields(Undefined)]

\* Uploads multer stores: an image, an image with a thumbnail, a thumbnail
\* alone
StoredForms ==
    {PartsForm(<<FilePart("media", ImagePng)>>),
     PartsForm(<<FilePart("media", ImagePng), FilePart("thumbnail", ImagePng)>>),
     PartsForm(<<FilePart("thumbnail", ImagePng)>>)}

\* Uploads multer refuses: a media part that is neither image nor video, alone
\* and after a thumbnail it has stored; a thumbnail that is no image after a
\* media part it has stored; a part under another field name; a second media
\* part; a media part over the size limit
RefusedForms ==
    {PartsForm(<<FilePart("media", TextPlain)>>),
     PartsForm(<<FilePart("thumbnail", ImagePng), FilePart("media", TextPlain)>>),
     PartsForm(<<FilePart("media", VideoMp4), FilePart("thumbnail", VideoMp4)>>),
     PartsForm(<<FilePart("media", ImagePng), FilePart("file", ImagePng)>>),
     PartsForm(<<FilePart("media", ImagePng), FilePart("media", ImagePng)>>),
     PartsForm(<<BigPart("media", VideoMp4)>>)}

UploadForms == StoredForms \cup RefusedForms

\* What generateId() may return in the upload specification: ids of rows
\* there may be, and an id no row has
UploadIds == {P1, P2, PhotoId(3)}

\* The faults of the database at the two inserts of an upload
Faults == {<<a, b>> : a \in BOOLEAN, b \in BOOLEAN}

\* The outcomes of the two unlinks of a deletion
Fails == {<<a, b>> : a \in BOOLEAN, b \in BOOLEAN}

\* The address the requests of the rate limiter specification come from
Ips == {<<"a">>}

\* The times that pass between requests, in seconds: half a window, and a
\* second more
Pauses == {30, 31}

\* An upload of one image with the text fields given
FieldsForm(title, description, order) ==
    [parts |-> <<FilePart("media", ImagePng)>>,
     fields |-> [title |-> title, description |-> description, order |-> order,
                 mediaType |-> Undefined]]

\* Uploads with and without title and description: none, markup, an
\* unterminated tag, a title over 200 characters, empty strings
TextForms ==
    {FieldsForm(Undefined, Undefined, Undefined),
     FieldsForm(JsStr(Tag \o <<"a">>), JsStr(OpenTag), Undefined),
     FieldsForm(Long(DefaultMaxLength + 1), JsStr(NestedTag), Undefined),
     FieldsForm(EmptyStr, EmptyStr, Undefined)}

\* The order field of an upload: omitted, not a number, zero, negative, and
\* the integers 1 and 2
OrderProbes ==
    {Undefined, JsStr(<<"a", "b", "c">>), JsStr(<<"0">>), JsStr(<<"-", "1">>),
     JsStr(<<"1">>), JsStr(<<"2">>)}

OrderForms == {FieldsForm(Undefined, Undefined, o) : o \in OrderProbes}

\* The password parameter of GET /admin: none, empty, the secret, another
\* text, the text "undefined"
AdminQueries == {Absent, Text(""), Text(TheSecret), Text("wrong"), Text("undefined")}

\* The credentials of the requests of the chain specification: the right one,
\* none, a wrong one
ChainHeaders == {GoodHeader, Absent, Text("Bearer wrong")}

\* Tour bodies of the chain specification: a valid one, one with no city
ChainTours == {BaseTour, [BaseTour EXCEPT !.city = Undefined]}

\* Uploads of the chain specification: an image, a thumbnail alone, a media
\* part that is neither image nor video
ChainForms ==
    {PartsForm(<<FilePart("media", ImagePng)>>),
     PartsForm(<<FilePart("thumbnail", ImagePng)>>),
     PartsForm(<<FilePart("media", TextPlain)>>)}

-----------------------------------------------------------------------------
(* Specifications *)

NoRequest == Request("", Absent, <<>>, 0, NoBody)

NoResponse == Response(0, "", "", 0, FALSE, <<>>)

\* The state when the server has started on a new database and an empty media
\* directory
InitStore ==
    /\ tours = {}
    /\ toursSeq = 0
    /\ countdown = {}
    /\ gallerySettings = {}
    /\ gallery = {}
    /\ now = 0
    /\ files = {}
    /\ fileSeq = 0
    /\ bandInfo = [name |-> JsStr(<<"a">>)]
    /\ bandInfoBackups = {}
    /\ backups = 0
    /\ req = NoRequest
    /\ res = NoResponse
    /\ issued = <<>>
    /\ added = {}
    /\ deleted = {}
    /\ lastWrite = [countdown |-> <<>>, enabled |-> <<>>]
    /\ calls = <<>>
    /\ requestCounts = {}
    /\ admitted = {}
    /\ deleting = [k \in DeleteSlots |-> IdleDelete]
    /\ dbFile = [main |-> <<{}, 0, {}, {}, {}>>, backup |-> <<>>]

\* ADMIN_PASSWORD is set
InitConfigured == adminPassword = Text(TheSecret) /\ InitStore

\* ADMIN_PASSWORD is set, empty, or not set
InitApi == adminPassword \in Passwords /\ InitStore

\* Tours, through the routes and through the store: at most MaxTourSeq ids
MaxTourSeq == 2

NextTours ==
    \/ GetToursRoute
    \/ \E b \in {BaseTour, OtherTour} : PostTours(GoodHeader, b) /\ toursSeq' <= MaxTourSeq
    \/ \E p \in TourParams(MaxTourSeq) : PutTours(GoodHeader, p, OtherTour)
    \/ \E p \in TourParams(MaxTourSeq) : DeleteTours(GoodHeader, p)
    \/ CallGetTours
    \/ \E t \in StoreTours : CallAddTour(t) /\ toursSeq' <= MaxTourSeq
    \/ \E id \in 1..(MaxTourSeq + 1), t \in StoreTours : CallUpdateTour(id, t)
    \/ \E id \in 1..(MaxTourSeq + 1) : CallDeleteTour(id)

SpecTours == InitConfigured /\ [][NextTours]_vars

\* Validation of tours: at most MaxValidatedTours ids
MaxValidatedTours == 1

NextValidate ==
    \/ GetToursRoute
    \/ \E b \in ValidationBodies : PostTours(GoodHeader, b) /\ toursSeq' <= MaxValidatedTours
    \/ \E p \in TourParams(MaxValidatedTours + 1), b \in ValidationBodies :
          PutTours(GoodHeader, p, b)

SpecValidate == InitConfigured /\ [][NextValidate]_vars

\* Sanitization of tours and countdown: at most MaxSanitizedTours ids
MaxSanitizedTours == 1

NextSanitize ==
    \/ GetToursRoute
    \/ GetCountdownRoute
    \/ \E b \in MarkupBodies : PostTours(GoodHeader, b) /\ toursSeq' <= MaxSanitizedTours
    \/ \E b \in MarkupBodies : PutTours(GoodHeader, IdText(1), b)
    \/ \E b \in CountdownBodies : PostCountdown(GoodHeader, b)

SpecSanitize == InitConfigured /\ [][NextSanitize]_vars

\* The two single-row tables, through the store and through the route
NextSingleton ==
    \/ CallGetCountdown
    \/ \E d \in StoreCountdowns : CallUpdateCountdown(d)
    \/ CallGetGalleryEnabled
    \/ \E e \in StoreEnabled : CallUpdateGallerySettings(e)
    \/ GetCountdownRoute
    \/ \E b \in CountdownBodies : PostCountdown(GoodHeader, b)

SpecSingleton == InitConfigured /\ [][NextSingleton]_vars

\* The gallery: at most MaxGalleryFiles uploads of one file each, with a new
\* identifier each, in MaxGalleryClock seconds
MaxGalleryFiles == 3

MaxGalleryClock == 1

NextGallery ==
    \/ GetGalleryRoute
    \/ \E f \in GalleryForms :
          PostAddPhoto(GoodHeader, f, PhotoId(fileSeq + 1), PhotoId(fileSeq + 2),
                       NoFaults)
          /\ fileSeq' <= MaxGalleryFiles
    \/ PostUpload(GoodHeader, ImageForm(Undefined), PhotoId(fileSeq + 1),
                  PhotoId(fileSeq + 2), NoFaults)
       /\ fileSeq' <= MaxGalleryFiles
    \/ \E b \in ReorderBodies(MaxGalleryFiles) : ReorderPhotos(GoodHeader, b)
    \/ \E b \in DeleteBodies(MaxGalleryFiles) : DeletePhoto(GoodHeader, b, NoFails)
    \/ Tick /\ now' <= MaxGalleryClock

SpecGallery == InitConfigured /\ [][NextGallery]_vars

\* The gate in front of every mutating route: at most MaxAuthTours tour ids,
\* MaxAuthFiles uploads and MaxAuthBackups backups
MaxAuthTours == 1

MaxAuthFiles == 1

MaxAuthBackups == 1

NextAuth ==
    \/ \E h \in AuthHeaders : PostTours(h, BaseTour) /\ toursSeq' <= MaxAuthTours
    \/ \E h \in AuthHeaders : PutTours(h, IdText(1), OtherTour)
    \/ \E h \in AuthHeaders : DeleteTours(h, IdText(1))
    \/ \E h \in AuthHeaders : PostCountdown(h, BaseCountdown)
    \/ \E h \in AuthHeaders : PostBackup(h) /\ backups' <= MaxAuthBackups
    \/ \E h \in AuthHeaders, b \in BandInfoBodies : PutBandInfo(h, b)
    \/ \E h \in AuthHeaders : DeletePhoto(h, [photoId |-> JsStr(P1)], NoFails)
    \/ \E h \in AuthHeaders :
          ReorderPhotos(h, [photoId |-> JsStr(P1), targetIndex |-> JsNum(0)])
    \/ \E h \in AuthHeaders :
          PostAddPhoto(h, ImageForm(Undefined), P1, P2, NoFaults)
          /\ fileSeq' <= MaxAuthFiles
    \/ \E h \in AuthHeaders :
          PostUpload(h, VideoForm, P1, P2, NoFaults) /\ fileSeq' <= MaxAuthFiles
    \/ \E q \in AdminQueries : GetAdmin(q)

SpecAuth == InitApi /\ [][NextAuth]_vars

\* The uploads, with ids that collide, database faults and refused parts: at
\* most MaxUploadFiles file names generated and kept
MaxUploadFiles == 2

NextUpload ==
    \/ GetGalleryRoute
    \/ \E f \in UploadForms, id1 \in UploadIds, id2 \in UploadIds, faults \in Faults :
          PostAddPhoto(GoodHeader, f, id1, id2, faults)
          /\ fileSeq' <= MaxUploadFiles
    \/ \E f \in UploadForms, id1 \in UploadIds, id2 \in UploadIds, faults \in Faults :
          PostUpload(GoodHeader, f, id1, id2, faults)
          /\ fileSeq' <= MaxUploadFiles
    \/ \E b \in DeleteBodies(2), fails \in Fails : DeletePhoto(GoodHeader, b, fails)

SpecUpload == InitConfigured /\ [][NextUpload]_vars

\* The rate limiter: the clock goes to MaxRateClock seconds, an entry counts
\* to MaxOverLimit requests over MAX_REQUESTS
MaxRateClock == 61

MaxOverLimit == 2

NextRate ==
    \/ \E ip \in Ips :
          rateLimit(ip)
          /\ \A e \in requestCounts' : e.count <= MAX_REQUESTS + MaxOverLimit
    \/ \E d \in Pauses : Pass(d) /\ now' <= MaxRateClock

SpecRate == InitConfigured /\ [][NextRate]_vars

\* The text fields and the order of uploads: at most MaxFieldFiles files
MaxFieldFiles == 2

NextFields ==
    \/ GetGalleryRoute
    \/ \E f \in TextForms \cup OrderForms :
          PostAddPhoto(GoodHeader, f, PhotoId(fileSeq + 1), PhotoId(fileSeq + 2),
                       NoFaults)
          /\ fileSeq' <= MaxFieldFiles
    \/ \E f \in TextForms \cup OrderForms :
          PostUpload(GoodHeader, f, PhotoId(fileSeq + 1), PhotoId(fileSeq + 2),
                     NoFaults)
          /\ fileSeq' <= MaxFieldFiles
    \/ \E b \in DeleteBodies(MaxFieldFiles) : DeletePhoto(GoodHeader, b, NoFails)

SpecFields == InitConfigured /\ [][NextFields]_vars

\* The middleware chain of a mutating request: app.use(rateLimit), then the
\* route with its gate and handler; at most MaxChainTours tours and
\* MaxChainFiles files
MaxChainTours == 1

MaxChainFiles == 1

NextChain ==
    \/ \E ip \in Ips, h \in ChainHeaders, b \in ChainTours :
          /\ ~Pending
          /\ rateLimitFor(ip, Request("POST /api/tours", h, <<>>, 0, b))
          /\ \A e \in requestCounts' : e.count <= MAX_REQUESTS + MaxOverLimit
    \/ \E ip \in Ips, h \in ChainHeaders, f \in ChainForms :
          /\ ~Pending
          /\ rateLimitFor(ip, Request("POST /admin/add-photo", h, <<>>, 0, f))
          /\ \A e \in requestCounts' : e.count <= MAX_REQUESTS + MaxOverLimit
    \/ /\ Pending
       /\ req.op = "POST /api/tours"
       /\ PostTours(req.auth, req.body)
       /\ toursSeq' <= MaxChainTours
    \/ /\ Pending
       /\ req.op = "POST /admin/add-photo"
       /\ PostAddPhoto(req.auth, req.body, PhotoId(fileSeq + 1), PhotoId(fileSeq + 2),
                       NoFaults)
       /\ fileSeq' <= MaxChainFiles

SpecChain == InitConfigured /\ [][NextChain]_vars

\* The orphan sweep: at most MaxSweepFiles files are uploaded, with and
\* without a thumbnail of their own, rows are deleted with unlinks that fail,
\* and the sweep runs over the media directory
MaxSweepFiles == 3

NextSweep ==
    \/ \E f \in StoredForms :
          PostAddPhoto(GoodHeader, f, PhotoId(fileSeq + 1), PhotoId(fileSeq + 2),
                       NoFaults)
          /\ fileSeq' <= MaxSweepFiles
    \/ \E b \in DeleteBodies(MaxSweepFiles), fails \in Fails :
          DeletePhoto(GoodHeader, b, fails)
    \/ \E images \in SUBSET files, failed \in SUBSET files :
          cleanupOrphanedPhotos(images, failed)

SpecSweep == InitConfigured /\ [][NextSweep]_vars

\* Deletions in flight together: at most MaxRaceFiles files are uploaded, with
\* and without a thumbnail of their own, and the requests of the two slots
\* take their steps in every order, with unlinks that fail
MaxRaceFiles == 3

RaceForms ==
    {PartsForm(<<FilePart("media", ImagePng)>>),
     PartsForm(<<FilePart("media", ImagePng), FilePart("thumbnail", ImagePng)>>)}

NextRace ==
    \/ \E f \in RaceForms :
          PostAddPhoto(GoodHeader, f, PhotoId(fileSeq + 1), PhotoId(fileSeq + 2),
                       NoFaults)
          /\ fileSeq' <= MaxRaceFiles
    \/ \E k \in DeleteSlots, b \in DeleteBodies(MaxRaceFiles) :
          DeleteStart(k, GoodHeader, b)
    \/ \E k \in DeleteSlots, fails \in BOOLEAN : DeleteUnlinkFile(k, fails)
    \/ \E k \in DeleteSlots, fails \in BOOLEAN : DeleteUnlinkThumbnail(k, fails)

SpecRace == InitConfigured /\ [][NextRace]_vars

\* Reorders over items of every kind: at most MaxReorderFiles files are
\* uploaded, as an image with title and description, an image with a
\* thumbnail of its own and a video without thumbnail, and every item is
\* moved to every position, valid or not
MaxReorderFiles == 4

ReorderForms ==
    {[parts |-> <<FilePart("media", ImagePng)>>,
      fields |-> [title |-> JsStr(<<"b">>), description |-> JsStr(<<"a", "b">>),
                  order |-> Undefined, mediaType |-> Undefined]],
     PartsForm(<<FilePart("media", ImagePng), FilePart("thumbnail", ImagePng)>>),
     PartsForm(<<FilePart("media", VideoMp4)>>)}

NextReorder ==
    \/ \E f \in ReorderForms :
          PostAddPhoto(GoodHeader, f, PhotoId(fileSeq + 1), PhotoId(fileSeq + 2),
                       NoFaults)
          /\ fileSeq' <= MaxReorderFiles
    \/ \E b \in ReorderBodies(MaxReorderFiles) : ReorderPhotos(GoodHeader, b)

SpecReorder == InitConfigured /\ [][NextReorder]_vars

\* Two addresses at the rate limiter: the first sends requests until it is
\* refused and MaxOverLimit more, the second sends at most MaxOtherRequests,
\* and the clock goes to MaxRecoverClock seconds, past the end of a window
MaxOtherRequests == 1

MaxRecoverClock == 61

NextRecover ==
    \/ rateLimit(<<"a">>)
       /\ \A e \in requestCounts' : e.count <= MAX_REQUESTS + MaxOverLimit
    \/ rateLimit(<<"b">>)
       /\ \A e \in requestCounts' : e.ip = <<"b">> => e.count <= MaxOtherRequests
    \/ \E d \in Pauses : Pass(d) /\ now' <= MaxRecoverClock

SpecRecover == InitConfigured /\ [][NextRecover]_vars

\* Backups beside writes: at most MaxBackupTours tours and MaxBackupFileSeq
\* uploaded files are added, tours are deleted, the countdown is written,
\* checkpoints happen or do not, and at most MaxBackupFiles backups are taken
MaxBackupTours == 2

MaxBackupFileSeq == 1

MaxBackupFiles == 2

NextBackup ==
    \/ PostTours(GoodHeader, BaseTour) /\ toursSeq' <= MaxBackupTours
    \/ \E n \in 1..MaxBackupTours : DeleteTours(GoodHeader, IdText(n))
    \/ PostCountdown(GoodHeader, BaseCountdown)
    \/ PostAddPhoto(GoodHeader, ImageForm(Undefined), PhotoId(fileSeq + 1),
                    PhotoId(fileSeq + 2), NoFaults)
       /\ fileSeq' <= MaxBackupFileSeq
    \/ Checkpoint
    \/ PostBackup(GoodHeader) /\ backups' <= MaxBackupFiles

SpecBackup == InitConfigured /\ [][NextBackup]_vars

-----------------------------------------------------------------------------
(* Properties *)

\* The mutating routes
MutatingRoutes ==
    {"POST /api/tours", "PUT /api/tours/:id", "DELETE /api/tours/:id",
     "POST /api/countdown", "POST /api/backup", "PUT /api/band-info",
     "DELETE /admin/delete-photo", "POST /admin/reorder-photos",
     "POST /admin/add-photo", "POST /upload"}

\* The header is absent or is not exactly 'Bearer <the configured secret>'
WrongCredential(authHeader) ==
    ~authHeader.set \/ authHeader.v # "Bearer " \o adminPassword.v

\* C1. Auth gating: with a secret configured, a request to a mutating route
\* whose Authorization header is absent or is not exactly 'Bearer <secret>' is
\* answered 401, and the tours, the gallery, the countdown, the gallery
\* settings and the media directory are after the request what they were.
C1_AuthGating ==
    [][(/\ req'.op \in MutatingRoutes
        /\ ~Falsy(adminPassword)
        /\ WrongCredential(req'.auth))
       => /\ res'.status = 401
          /\ tours' = tours
          /\ gallery' = gallery
          /\ countdown' = countdown
          /\ gallerySettings' = gallerySettings
          /\ files' = files]_vars

\* A wrong secret has been refused while the store held a tour, a countdown,
\* a photo and its file
C1_Witness ==
    /\ req.op = "DELETE /admin/delete-photo"
    /\ req.auth = Text("Bearer wrong")
    /\ res.status = 401
    /\ \E r \in gallery : r.id = P1 /\ r.filename \in files
    /\ tours # {}
    /\ countdown # {}

\* C2. Fail closed: with no secret configured (not set, or empty), every
\* request to a mutating route is answered 500, which is not the 401 of a wrong
\* credential, whatever its header, and neither the store nor any file changes.
C2_FailClosed ==
    [][(req'.op \in MutatingRoutes /\ Falsy(adminPassword))
       => /\ res'.status = 500
          /\ res'.error # GateError(401)
          /\ UNCHANGED <<store, disk>>]_vars

\* The header an unset secret would put in the template has been refused with
\* 500 on an upload
C2_Witness ==
    /\ ~adminPassword.set
    /\ req.op = "POST /admin/add-photo"
    /\ req.auth = Text("Bearer undefined")
    /\ res.status = 500

\* C3. Tour identifier uniqueness: every identifier addTour returns is greater
\* than every identifier an earlier addTour returned, and is not that of a
\* deleted tour.
C3_TourIdsIncrease ==
    [][issued' # issued
       => /\ issued' = Append(issued, res'.id)
          /\ \A k \in DOMAIN issued : issued[k] < res'.id
          /\ res'.id \notin deleted]_vars

\* Two tours have been added, the first one deleted before the second was added
C3_Witness ==
    /\ Len(issued) = 2
    /\ issued[1] \in deleted
    /\ RowIds(tours) = {issued[2]}
    /\ req.op \in {"addTour", "POST /api/tours"}

\* The text a stored field reads back as: the string, or '' for an omitted one
TextOf(v) == IF v.t = "string" THEN v.s ELSE <<>>

\* C4. Tour round-trip: from addTour(t) returning i until an updateTour or
\* deleteTour on i, every listing of the tours holds exactly one record with
\* identifier i, and its date, city, venue and ticket link are those of t, an
\* omitted ticket link being the empty string.
C4_TourRoundTrip ==
    \A a \in added : \A l \in getTours :
        /\ Cardinality({i \in DOMAIN l : l[i].id = a.id}) = 1
        /\ \A i \in DOMAIN l :
              l[i].id = a.id
              => /\ l[i].date = a.data.date.s
                 /\ l[i].city = a.data.city.s
                 /\ l[i].venue = a.data.venue.s
                 /\ l[i].ticketLink = TextOf(a.data.ticketLink)

\* A listing of two tours has been read while both are as they were added, one
\* of them without a ticket link
C4_Witness ==
    /\ req.op \in {"getTours", "GET /api/tours"}
    /\ Len(res.body) = 2
    /\ Cardinality(added) = 2
    /\ \E a \in added : ~Truthy(a.data.ticketLink)

\* The tour id a call of deleteTour or of DELETE /api/tours/:id is about
DeletedId(r) == IF r.op = "deleteTour" THEN r.id ELSE ParseInt(JsStr(r.param)).n

\* C5. Idempotent delete reporting: a delete of an existing tour id reports
\* success and removes the row; a delete of an id that is not in the table
\* reports not-found (false at the store, 404 at the route); and no tour id
\* that has been deleted is in the table again.
C5_DeleteReportsOnce ==
    /\ [](\A id \in deleted : id \notin RowIds(tours))
    /\ [][(\/ req'.op = "deleteTour"
           \/ /\ req'.op = "DELETE /api/tours/:id"
              /\ ~IsNaN(ParseInt(JsStr(req'.param))))
          => IF DeletedId(req') \in RowIds(tours)
             THEN /\ res'.ok
                  /\ res'.status \in {0, 200}
                  /\ DeletedId(req') \notin RowIds(tours')
             ELSE /\ ~res'.ok
                  /\ res'.status \in {0, 404}
                  /\ tours' = tours]_vars

\* A second delete of the same tour has answered 404
C5_Witness ==
    /\ req.op = "DELETE /api/tours/:id"
    /\ res.status = 404
    /\ DeletedId(req) \in deleted

\* The value is missing, no string, or empty after trimming
IsBlank(v) == v.t # "string" \/ Trim(v.s) = <<>>

\* The fields of a tours body that the validation rule turns down
FailingFields(b) ==
    {f \in {"date", "city", "venue"} : IsBlank(b[f])}
    \cup (IF ~IsBlank(b.city) /\ Len(b.city.s) > MaxCityLength THEN {"city"} ELSE {})
    \cup (IF ~IsBlank(b.venue) /\ Len(b.venue.s) > MaxVenueLength THEN {"venue"} ELSE {})

\* A body that passes with its city or its venue exactly at the limit
AtTheLimit(b) ==
    /\ FailingFields(b) = {}
    /\ Len(b.date.s) <= MaxDateLength
    /\ Len(b.city.s) = MaxCityLength \/ Len(b.venue.s) = MaxVenueLength

\* The step answered 400 naming a failing field of its body, tours unchanged
RejectedNaming ==
    /\ res'.status = 400
    /\ res'.field \in FailingFields(req'.body)
    /\ tours' = tours

\* C6 as stated: an authenticated POST /api/tours or PUT /api/tours/:id with a
\* failing date, city or venue is answered 400 naming the failing field and
\* leaves the tours unchanged, and a body at the limits is accepted.
C6_AsStated ==
    [][req'.op \in {"POST /api/tours", "PUT /api/tours/:id"}
       => /\ FailingFields(req'.body) # {} => RejectedNaming
          /\ AtTheLimit(req'.body) => res'.status \in {200, 404}]_vars

\* C6. Validation rejection: an authenticated POST /api/tours, or PUT
\* /api/tours/:id whose :id parses as an integer, with a failing date, city or
\* venue is answered 400 naming the failing field and leaves the tours
\* unchanged; a PUT whose :id does not parse is answered 400 'Invalid tour ID'
\* naming no field, tours unchanged; a body with a city of exactly 100 or a
\* venue of exactly 200 characters is accepted.
C6_ValidationRejection ==
    [][req'.op \in {"POST /api/tours", "PUT /api/tours/:id"}
       => IF req'.op = "PUT /api/tours/:id" /\ IsNaN(ParseInt(JsStr(req'.param)))
          THEN /\ res'.status = 400
               /\ res'.error = "Invalid tour ID"
               /\ res'.field = ""
               /\ tours' = tours
          ELSE /\ FailingFields(req'.body) # {} => RejectedNaming
               /\ AtTheLimit(req'.body)
                  => /\ res'.status \in {200, 404}
                     /\ res'.status = 200
                        => \E r \in tours' :
                              /\ r.id = res'.id
                              /\ Len(r.city) = Len(req'.body.city.s)
                              /\ Len(r.venue) = Len(req'.body.venue.s)]_vars

\* A tour with a city of 100 and a venue of 200 characters is stored, and the
\* last request, with a city of 101 characters, was answered 400 naming city
C6_Witness ==
    /\ \E r \in tours : Len(r.city) = MaxCityLength /\ Len(r.venue) = MaxVenueLength
    /\ req.op = "PUT /api/tours/:id"
    /\ Len(req.body.city.s) = MaxCityLength + 1
    /\ res.status = 400
    /\ res.field = "city"

\* The string has no '<' and is at most DefaultMaxLength characters long
NoMarkup(text) ==
    /\ \A i \in DOMAIN text : text[i] # "<"
    /\ Len(text) <= DefaultMaxLength

\* C7. Sanitization of tours and countdown: the city, venue and ticket link of
\* every tour stored by POST or PUT /api/tours, and the title, description,
\* completed title and completed description stored by POST /api/countdown,
\* hold no '<' and are at most 200 characters long.
C7_StoredTextsSanitized ==
    /\ \A r \in tours : NoMarkup(r.city) /\ NoMarkup(r.venue) /\ NoMarkup(r.ticketLink)
    /\ \A r \in countdown :
          /\ NoMarkup(r.title)
          /\ NoMarkup(r.description)
          /\ NoMarkup(r.completedTitle)
          /\ NoMarkup(r.completedDescription)

\* A tour whose ticket link was sent with markup and over 200 characters is
\* stored, and so is a countdown whose title was sent as an unterminated tag
C7_Witness ==
    /\ req.op = "POST /api/countdown"
    /\ req.body.title = JsStr(OpenTag)
    /\ res.status = 200
    /\ \E r \in tours : Len(r.ticketLink) = DefaultMaxLength

\* C8 as stated: every tour stored by POST or PUT /api/tours has a non-empty
\* date, city and venue after sanitization.
C8_StoredFieldsNonEmpty ==
    \A r \in tours : r.date # <<>> /\ r.city # <<>> /\ r.venue # <<>>

\* The list without its element at position i
Without(l, i) == SubSeq(l, 1, i - 1) \o SubSeq(l, i + 1, Len(l))

\* A photo but for its order
Item(photo) == [photo EXCEPT !.order = JsNum(0)]

\* The listing after is the listing before with the photo photoId moved to the
\* 0-based position k and the orders 1, 2, ..., n
ReorderedFrom(before, after, photoId, k) ==
    LET from == CHOOSE i \in Positions(before, photoId) : TRUE
    IN  /\ Len(after) = Len(before)
        /\ \A i \in DOMAIN after : after[i].order = JsNum(i)
        /\ SameId(after[k + 1].id, photoId)
        /\ Item(after[k + 1]) = Item(before[from])
        /\ [i \in 1..(Len(after) - 1) |-> Item(Without(after, k + 1)[i])]
           = [i \in 1..(Len(before) - 1) |-> Item(Without(before, from)[i])]

\* C9. Reorder completeness: when POST /admin/reorder-photos succeeds for a
\* photoId of the gallery and a targetIndex in 0..n-1, the gallery reads as the
\* same n items with the orders 1, 2, ..., n in list sequence, the moved item
\* at the 0-based position targetIndex, the other items in the sequence they
\* had.
C9_ReorderCompleteness ==
    [][(/\ req'.op = "POST /admin/reorder-photos"
        /\ res'.status = 200
        /\ req'.body.targetIndex.t = "number"
        /\ req'.body.targetIndex.n \in 0..(Cardinality(gallery) - 1))
       => \E before \in getGallery :
             \A after \in getGalleryOf(gallery') :
                ReorderedFrom(before, after, req'.body.photoId,
                              req'.body.targetIndex.n)]_vars

\* In a gallery of three items the one uploaded first has been moved to the
\* last position
C9_Witness ==
    /\ req.op = "POST /admin/reorder-photos"
    /\ res.status = 200
    /\ req.body.targetIndex = JsNum(2)
    /\ Cardinality(gallery) = 3
    /\ \E r \in gallery :
          /\ SameId(r.id, req.body.photoId)
          /\ r.order_num = 3
          /\ \A o \in gallery : r.filename <= o.filename

\* The countdown row holds the values of countdownData
ReadsBack(row, countdownData) ==
    /\ row.title = TextOf(countdownData.title)
    /\ row.description = TextOf(countdownData.description)
    /\ row.releaseDate = TextOf(countdownData.releaseDate)
    /\ (row.enabled # 0) = Truthy(countdownData.enabled)
    /\ row.completedTitle = TextOf(countdownData.completedTitle)
    /\ row.completedDescription = TextOf(countdownData.completedDescription)
    /\ row.preReleaseMessage = TextOf(countdownData.preReleaseMessage)

\* C10. Singleton countdown: the countdown table, and the gallery settings
\* table, hold at most one row and its key is 1; getCountdown returns the
\* values of the most recent write, and the empty structure when there has been
\* no write; the gallery's enabled flag is that of the most recent write.
C10_Singleton ==
    /\ Cardinality(countdown) <= 1
    /\ \A r \in countdown : r.id = 1
    /\ Cardinality(gallerySettings) <= 1
    /\ \A r \in gallerySettings : r.id = 1
    /\ IF lastWrite.countdown = <<>> THEN getCountdown = {<<>>}
       ELSE \A c \in getCountdown :
               c # <<>> /\ ReadsBack(c[1], lastWrite.countdown[1])
    /\ lastWrite.enabled # <<>>
       => galleryEnabledOf(gallerySettings) = {Truthy(lastWrite.enabled[1])}

\* getCountdown has returned a countdown written with a pre-release message,
\* the gallery being disabled
C10_Witness ==
    /\ req.op = "getCountdown"
    /\ res.body # <<>>
    /\ res.body[1].preReleaseMessage = <<"b">>
    /\ galleryEnabledOf(gallerySettings) = {FALSE}

UploadRoutes == {"POST /admin/add-photo", "POST /upload"}

\* A part the upload routes turn down for its field name or its type
RefusedPart(part) ==
    \/ part.field = "media" /\ ~StartsWithType(part.mimetype, "image")
                            /\ ~StartsWithType(part.mimetype, "video")
    \/ part.field = "thumbnail" /\ ~StartsWithType(part.mimetype, "image")
    \/ part.field \notin {"media", "thumbnail"}

C12_CollisionRetry ==
    [][req'.op \in UploadRoutes
       => /\ Len(calls') <= 2
          /\ \A k \in DOMAIN calls' : calls'[k].call = "addPhoto"
          /\ (calls' # <<>> /\ calls'[1].error = "constraint")
             => /\ Len(calls') = 2
                /\ IF calls'[2].error # ""
                   THEN /\ res'.status = 500
                        /\ gallery' = gallery
                   ELSE /\ res'.status = 200
                        /\ Cardinality(gallery') = Cardinality(gallery) + 1
                        /\ \E r \in gallery' :
                              /\ gallery' = gallery \cup {r}
                              /\ r.id = calls'[2].arg
                              /\ res'.body[1].id = r.id]_vars

\* the id of the first insert was taken and the retry has added the row
C12_Witness ==
    /\ req.op \in UploadRoutes
    /\ Len(calls) = 2
    /\ calls[1].error = "constraint"
    /\ calls[2].error = ""
    /\ res.status = 200
    /\ Cardinality(gallery) = 2

\* C13: an upload whose first insert fails for another reason than a taken id
\* answers the failure at once and makes no second insert.
C13_NoRetryForOtherFailures ==
    [][(/\ req'.op \in UploadRoutes
        /\ calls' # <<>>
        /\ calls'[1].error = "other")
       => /\ Len(calls') = 1
          /\ res'.status = 500]_vars

RECURSIVE Total(_)
\* The number of requests a set of history entries counts
Total(seen) ==
    IF seen = {} THEN 0
    ELSE LET a == CHOOSE x \in seen : TRUE
         IN  a.n + Total(seen \ {a})

\* C14: for every address, the requests let pass the rate limiter within
\* the 60 seconds that end now are at most 100.
C14_RollingCeiling ==
    \A ip \in Ips : Total({a \in admitted : a.ip = ip}) <= MAX_REQUESTS

\* The fields POST /api/countdown reads from the body
CountdownFields ==
    {"title", "description", "releaseDate", "enabled", "completedTitle",
     "completedDescription"}

\* C15: after a POST /api/countdown on a stored configuration, every field
\* the body does not have keeps the stored value, and so does the stored
\* pre-release message.
C15_CountdownMerge ==
    [][(req'.op = "POST /api/countdown" /\ res'.status = 200)
       => \A old \in countdown, new \in countdown' :
             /\ \A f \in CountdownFields :
                   req'.body[f] = Undefined => new[f] = old[f]
             /\ new.preReleaseMessage = old.preReleaseMessage]_vars

\* C16: no title and no description of a gallery row holds a '<', and none is
\* longer than the maximum length.
C16_GalleryTextsSanitized ==
    \A r \in gallery : NoMarkup(r.title.s) /\ NoMarkup(r.description.s)

\* Order fields that are omitted, not a number, zero or negative
NotPositiveOrders ==
    {Undefined, JsStr(<<"a", "b", "c">>), JsStr(<<"0">>), JsStr(<<"-", "1">>)}

\* Order fields that are a positive integer, with the integer
PositiveOrders == {<<JsStr(<<"1">>), 1>>, <<JsStr(<<"2">>), 2>>}

\* The largest order of the rows of a gallery that has rows
LargestOrder(rows) ==
    CHOOSE m \in {r.order_num : r \in rows} : \A r \in rows : r.order_num <= m

\* One more than the largest order, 1 for a gallery with no row
OrderAfter(rows) == IF rows = {} THEN 1 ELSE LargestOrder(rows) + 1

\* C17: getNextGalleryOrder is 1 on an empty gallery and otherwise one more
\* than the largest stored order; the row of an upload whose order field is
\* omitted, not a number, zero or negative has the value getNextGalleryOrder
\* had before the upload, and the row of an upload with a positive integer
\* order has that integer.
C17_OrderAssignment ==
    /\ [](getNextGalleryOrder = OrderAfter(gallery))
    /\ [][(req'.op \in UploadRoutes /\ res'.status = 200)
          => \E r \in gallery' \ gallery :
                /\ r.id = res'.body[1].id
                /\ req'.body.fields.order \in NotPositiveOrders
                   => r.order_num = OrderAfter(gallery)
                /\ \A p \in PositiveOrders :
                      req'.body.fields.order = p[1] => r.order_num = p[2]]_vars

\* an upload with a negative order after one with order 2: the rows have the
\* orders 2 and 3
C17_Witness ==
    /\ req.op \in UploadRoutes
    /\ req.body.fields.order = JsStr(<<"-", "1">>)
    /\ res.status = 200
    /\ {r.order_num : r \in gallery} = {2, 3}

\* Photo a was inserted before photo b: the uploads number their files in the
\* order they are made
InsertedBefore(a, b) == a.filename < b.filename

NamedId(param) ==
    IF \E n \in 1..(MaxTourSeq + 1) : param = IdText(n)
    THEN CHOOSE n \in 1..(MaxTourSeq + 1) : param = IdText(n)
    ELSE 0

\* C19: updateTour and deleteTour with an id no row has return false and
\* leave the table as it is; PUT with a valid body and DELETE /api/tours/:id
\* for such an id answer 404, which is not the status 400 of a validation
\* error, and the list of tours is the same before and after.
C19_TourNotFound ==
    [][/\ (req'.op \in {"updateTour", "deleteTour"} /\ req'.id \notin RowIds(tours))
          => /\ res'.ok = FALSE
             /\ tours' = tours
       /\ (/\ req'.op \in {"PUT /api/tours/:id", "DELETE /api/tours/:id"}
           /\ requireAuth(req'.auth) = 0
           /\ NamedId(req'.param) # 0
           /\ NamedId(req'.param) \notin RowIds(tours)
           /\ req'.op = "PUT /api/tours/:id" => validateTourData(req'.body) = NoError)
          => /\ res'.status = 404
             /\ res'.status # 400
             /\ tours' = tours
             /\ getTours' = getTours]_vars

\* a PUT for an id that was deleted, while another tour is stored
C19_Witness ==
    /\ req.op = "PUT /api/tours/:id"
    /\ res.status = 404
    /\ NamedId(req.param) \in deleted
    /\ tours # {}

\* The rows DELETE /admin/delete-photo finds for the photoId of a body
RowsNamed(photoId) == {r \in gallery : JsStr(r.id) = photoId}

\* C20: DELETE /admin/delete-photo for an item of the gallery deletes the row
\* first, then unlinks the file and, only when the row has a thumbnail under
\* another name, the thumbnail; whether or not the unlinks succeed the answer
\* is success and the row is gone. For a photoId no row has the answer is
\* not-found and neither the tables nor the files change.
C20_OrphanTolerantDelete ==
    [][(req'.op = "DELETE /admin/delete-photo" /\ requireAuth(req'.auth) = 0)
       => IF RowsNamed(req'.body.photoId) # {}
          THEN \A r \in RowsNamed(req'.body.photoId) :
                  /\ Len(calls') >= 2
                  /\ calls'[1] = Call("deletePhoto", r.id, "")
                  /\ calls'[2].call = "unlink" /\ calls'[2].arg = r.filename
                  /\ IF r.thumbnail # NoFile /\ r.thumbnail # r.filename
                     THEN /\ Len(calls') = 3
                          /\ calls'[3].call = "unlink"
                          /\ calls'[3].arg = r.thumbnail
                     ELSE Len(calls') = 2
                  /\ res'.status = 200
                  /\ gallery' = gallery \ {r}
                  /\ files' \subseteq files
          ELSE /\ res'.status = 404
               /\ UNCHANGED <<store, files>>]_vars

\* a deletion whose two unlinks were refused: the row is gone and both files
\* are still in the directory
C20_Witness ==
    /\ req.op = "DELETE /admin/delete-photo"
    /\ res.status = 200
    /\ Len(calls) = 3
    /\ calls[2].error = "rejected"
    /\ calls[3].error = "rejected"
    /\ {calls[2].arg, calls[3].arg} \subseteq files
    /\ gallery = {}

\* C21: GET /admin serves the admin page exactly when an admin password is
\* configured and the password parameter of the request equals it; every
\* other request is answered 401, also when no admin password is configured.
C21_AdminPageRequiresPassword ==
    [][req'.op = "GET /admin"
       => IF adminPassword.set /\ req'.body.password = adminPassword
          THEN res'.status = 200
          ELSE res'.status = 401 /\ res'.error = "Access Denied"]_vars

\* C22: an authenticated upload with no media part, whose parts the routes
\* accept (a thumbnail that is an image), is answered with the client error
\* 'No media file uploaded', adds no gallery row and leaves no file in the
\* media directory that was not there before.
C22_NoMediaNoSideEffect ==
    [][(/\ req'.op \in UploadRoutes
        /\ requireAuth(req'.auth) = 0
        /\ \A i \in DOMAIN req'.body.parts :
              /\ req'.body.parts[i].field # "media"
              /\ ~RefusedPart(req'.body.parts[i]))
       => /\ res'.status = 400
          /\ res'.error = "No media file uploaded"
          /\ gallery' = gallery
          /\ files' \subseteq files]_vars

\* The address of the chain specification is over the limit: its entry has
\* counted MAX_REQUESTS requests and its window has not ended
OverLimit ==
    \E e \in requestCounts : e.count >= MAX_REQUESTS /\ DateNow <= e.resetTime

\* C23: a request over the rate limit is answered 429 whatever its
\* credential; a request the gate refuses is answered by the gate and not
\* with a validation error; and in the three refusals (429, the gate, a
\* client error of validation) no table and no file of the media directory
\* has changed.
C23_CheckOrdering ==
    [][/\ (~Pending /\ Pending' = FALSE /\ OverLimit /\ req'.op # "")
          => /\ res'.status = 429
             /\ UNCHANGED <<store, files>>
       /\ (Pending /\ requireAuth(req'.auth) # 0)
          => /\ res'.status = requireAuth(req'.auth)
             /\ res'.status # 400
             /\ UNCHANGED <<store, files>>
       /\ (Pending /\ res'.status = 400)
          => UNCHANGED <<store, files>>]_vars

\* A targetIndex the reorder operation has no position for: not a number,
\* negative, or not below the number of gallery items
InvalidTargetIndex(v, count) == v.t # "number" \/ v.n < 0 \/ v.n >= count

\* C24 (reorder input validation): an authenticated reorder request that names
\* a stored item and whose targetIndex is missing, not a number, negative, or
\* not below the number of items is answered with a client error, and the
\* order of every gallery item is what it was.
C24_ReorderInputValidation ==
    [][(/\ req'.op = "POST /admin/reorder-photos"
        /\ requireAuth(req'.auth) = 0
        /\ \E r \in gallery : SameId(r.id, req'.body.photoId)
        /\ InvalidTargetIndex(req'.body.targetIndex, Cardinality(gallery)))
       => /\ res'.status \in 400..499
          /\ \A r \in gallery : \E q \in gallery' :
                q.id = r.id /\ q.order_num = r.order_num]_vars

\* C25 (upload response matches the store): the photo of a successful upload
\* answer has the id, file name, order, media type and thumbnail of the item
\* with that id in every listing GET /api/gallery may return afterwards, for
\* every order field (omitted, not a number, zero, negative, positive).
C25_UploadResponseMatchesStore ==
    [][(req'.op \in UploadRoutes /\ res'.status = 200)
       => \A photos \in getGallery' :
             \E i \in DOMAIN photos :
                /\ photos[i].id = res'.body[1].id
                /\ photos[i].filename = res'.body[1].filename
                /\ photos[i].order = res'.body[1].order
                /\ photos[i].mediaType = res'.body[1].mediaType
                /\ photos[i].thumbnail = res'.body[1].thumbnail]_vars

\* The files a gallery row references: its file and its thumbnail
Referenced == {r.filename : r \in gallery} \cup {r.thumbnail : r \in gallery}

\* C26 (orphan sweep safety): cleanupOrphanedPhotos removes only files that no
\* gallery row references, as file or as thumbnail; every referenced file that
\* was in the media directory before the sweep is there after it.
C26_OrphanSweepSafety ==
    [][req'.op = "cleanupOrphanedPhotos"
       => /\ (files \ files') \cap Referenced = {}
          /\ files \cap Referenced \subseteq files']_vars

\* The slots whose request is past the lookup and has not answered
InFlight == {k \in DeleteSlots : deleting[k].pc # "idle"}

\* C27 (concurrent deletion of one gallery item): of two deletions of one
\* photoId that are in flight together, under every interleaving at the
\* awaits, the one that found the row answers success and the other answers
\* not-found; the row is deleted by one deletePhoto call, and the file and the
\* thumbnail are unlinked by the request that found the row only.
C27_ConcurrentDeletion ==
    /\ [](\A j \in InFlight, k \in InFlight :
             deleting[j].photoId = deleting[k].photoId => j = k)
    /\ [](\A k \in InFlight, r \in gallery : ~SameId(r.id, deleting[k].photoId))
    /\ [][/\ (/\ req'.op = "DELETE /admin/delete-photo"
              /\ \E j \in InFlight : deleting[j].photoId = req'.body.photoId)
             => /\ res'.status = 404
                /\ calls' = <<>>
                /\ UNCHANGED <<gallery, files, deleting>>
          /\ \A k \in InFlight :
                k \notin InFlight'
                => /\ res'.status = 200
                   /\ req'.op = "unlink" /\ req'.id = k
          /\ req'.op = "unlink"
             => /\ req'.id \in InFlight
                /\ Len(calls') = 1
                /\ calls'[1].arg \in {deleting[req'.id].filename,
                                      deleting[req'.id].thumbnail}]_vars

\* the second deletion of a photo has been answered not-found while the first
\* waits for the unlink of the thumbnail
C27_Witness ==
    /\ req.op = "DELETE /admin/delete-photo"
    /\ req.id = 2
    /\ res.status = 404
    /\ deleting[1].pc = "unlinkThumbnail"
    /\ deleting[1].photoId = req.body.photoId

\* C28 (reorder frame condition): a reorder that succeeds changes nothing but
\* order values: the gallery has the same ids, and every row keeps its file
\* name, title, description, media type, thumbnail, MIME type and creation
\* time, and nothing outside the gallery table changes; a reorder for a
\* photoId that no row has answers not-found and changes nothing.
C28_ReorderFrame ==
    [][(req'.op = "POST /admin/reorder-photos" /\ requireAuth(req'.auth) = 0)
       => IF \E r \in gallery : SameId(r.id, req'.body.photoId)
          THEN /\ res'.status = 200
               /\ {q.id : q \in gallery'} = {r.id : r \in gallery}
               /\ Cardinality(gallery') = Cardinality(gallery)
               /\ \A r \in gallery : \E q \in gallery' :
                     q = [r EXCEPT !.order_num = q.order_num]
               /\ UNCHANGED <<tours, toursSeq, countdown, gallerySettings, disk>>
          ELSE /\ res'.status = 404
               /\ UNCHANGED <<store, disk>>]_vars

\* a reorder has changed the orders of a gallery that holds a video without
\* thumbnail, an image with a thumbnail of its own and an image with a title
C28_Witness ==
    /\ req.op = "POST /admin/reorder-photos"
    /\ res.status = 200
    /\ \E r \in gallery : r.media_type = "video" /\ r.thumbnail = NoFile
                          /\ r.order_num = 1
    /\ \E r \in gallery : r.thumbnail # NoFile /\ r.thumbnail # r.filename
    /\ \E r \in gallery : r.title = JsStr(<<"b">>) /\ r.order_num = 2

\* The entries of the addresses other than ip
OtherEntries(counts, ip) == {e \in counts : e.ip # ip}

\* C29 (rate-limit recovery and isolation): the first request of an address
\* after the reset time of its window is let pass, however many requests the
\* address has sent while it was refused; a request within the window leaves
\* the reset time where it was; and a request is refused only when the entry
\* of its own address has counted MAX_REQUESTS requests in a window that has
\* not ended, and it changes the entry of no other address.
C29_RecoveryAndIsolation ==
    [][req'.op = "rateLimit"
       => LET ip == req'.param
          IN  /\ OtherEntries(requestCounts', ip) = OtherEntries(requestCounts, ip)
              /\ \A e \in requestCounts :
                    e.ip = ip
                    => /\ DateNow > e.resetTime => res'.status = 0 /\ res'.ok
                       /\ DateNow <= e.resetTime
                          => \A f \in requestCounts' :
                                f.ip = ip => f.resetTime = e.resetTime
              /\ res'.status = 429
                 => \E e \in requestCounts :
                       /\ e.ip = ip
                       /\ e.count >= MAX_REQUESTS
                       /\ DateNow <= e.resetTime]_vars

\* the second address has been let pass while the first is refused, after
\* the first has sent requests while refused
C29_Witness ==
    /\ req.op = "rateLimit"
    /\ req.param = <<"b">>
    /\ res.status = 0
    /\ \E e \in requestCounts :
          /\ e.ip = <<"a">>
          /\ e.count > MAX_REQUESTS + 1
          /\ DateNow <= e.resetTime

\* C30 (backup completeness): the file a successful POST /api/backup produces
\* holds the tours, the gallery and the countdown as every write committed
\* before the backup left them, and taking the backup changes no row.
C30_BackupCompleteness ==
    [][(req'.op = "POST /api/backup" /\ res'.status = 200)
       => /\ dbFile'.backup = <<store>>
          /\ UNCHANGED store]_vars

====
